---- MODULE Spec2Model ----
(***************************************************************************)
(* Conference timeline (src/code.js, the current script at lines 338-1231): *)
(* date helpers, filter controls, the layout pass renderTimeline and the    *)
(* asynchronous load.                                                       *)
(*                                                                          *)
(* Numbers.  A JavaScript Date is modelled by its time value in whole days  *)
(* since 1970-01-01 (every Date of the script is a UTC midnight), or NaN    *)
(* for an Invalid Date.  A pixel quantity is an exact rational kept as its  *)
(* numerator over the denominator of pixelsPerDay (field den), or NaN; the  *)
(* script's doubles differ from these rationals by rounding of the order of *)
(* 1e-12 px while two unequal quantities here differ by at least 1/den px.  *)
(***************************************************************************)
EXTENDS Integers, Sequences, FiniteSets, TLC

\* JavaScript's NaN: the time value of an Invalid Date, the result of 0/0.
NaN == -2000000000

IsNum(a) == a # NaN

(* A call's result.  JavaScript evaluates the argument v before the body F  *)
(* runs, so a call F(v) is Result({F(x) : x \in {v}}): F applied to the      *)
(* value of v.                                                              *)
Result(S) == CHOOSE r \in S : TRUE

\* ---------------------------------------------------------------- constants

BAR_HEIGHT == 30
CYCLE_PADDING == 5
CONFERENCE_PADDING == 10
MONTH_LABEL_HEIGHT == 20
SMALL_BREAKPOINT == 768

\* new Date(8640000000000000) and new Date(-8640000000000000), in days.
MAX_TIME_DAYS == 100000000
MIN_TIME_DAYS == -100000000

\* ------------------------------------------------------- JavaScript numbers

\* a < b, a > b, a >= b, a <= b of JavaScript: false when either side is NaN.
Lt(a, b) == IsNum(a) /\ IsNum(b) /\ a < b
Gt(a, b) == IsNum(a) /\ IsNum(b) /\ a > b
Ge(a, b) == IsNum(a) /\ IsNum(b) /\ a >= b

Sub(a, b) == IF IsNum(a) /\ IsNum(b) THEN a - b ELSE NaN

\* Math.max and Math.min: NaN when either argument is NaN.
MathMax(a, b) == IF IsNum(a) /\ IsNum(b) THEN (IF a >= b THEN a ELSE b) ELSE NaN
MathMin(a, b) == IF IsNum(a) /\ IsNum(b) THEN (IF a <= b THEN a ELSE b) ELSE NaN

\* ------------------------------------------------------ the UTC calendar

\* Days since 1970-01-01 of the civil date y-m-d (m in 1..12): the proleptic
\* Gregorian calendar of ECMAScript's Date, by 400-year eras starting in March.
DaysFromEra(era, yoe, doy) ==
    era * 146097 + yoe * 365 + yoe \div 4 - yoe \div 100 + doy - 719468

DaysFromMarchYear(yy, mp, d) ==
    DaysFromEra(yy \div 400, yy % 400, (153 * mp + 2) \div 5 + d - 1)

DaysFromCivil(y, m, d) ==
    DaysFromMarchYear(IF m <= 2 THEN y - 1 ELSE y, IF m > 2 THEN m - 3 ELSE m + 9, d)

\* The civil date [y, m, d] of a day number.
CivilYMD(y, m, d) == [y |-> y + (IF m <= 2 THEN 1 ELSE 0), m |-> m, d |-> d]

CivilFromMonth(y, doy, mp) ==
    CivilYMD(y, IF mp < 10 THEN mp + 3 ELSE mp - 9, doy - (153 * mp + 2) \div 5 + 1)

CivilFromDayOfYear(y, doy) == CivilFromMonth(y, doy, (5 * doy + 2) \div 153)

CivilFromYearOfEra(era, doe, yoe) ==
    CivilFromDayOfYear(yoe + era * 400, doe - (365 * yoe + yoe \div 4 - yoe \div 100))

CivilFromDayOfEra(era, doe) ==
    CivilFromYearOfEra(era, doe,
        (doe - doe \div 1460 + doe \div 36524 - doe \div 146096) \div 365)

CivilFromDays(z) == CivilFromDayOfEra((z + 719468) \div 146097, (z + 719468) % 146097)

\* MakeDay of ECMAScript: month m0 is 0-based and may lie outside 0..11, the
\* day may lie outside the month; both carry over.
MakeDay(y, m0, d) == DaysFromCivil(y + m0 \div 12, (m0 % 12) + 1, 1) + d - 1

\* Date.UTC(y, m0, d) in days; a year 0..99 means 1900 + year.
DateUTC(y, m0, d) ==
    IF IsNum(y) /\ IsNum(m0) /\ IsNum(d)
    THEN MakeDay(IF 0 <= y /\ y <= 99 THEN 1900 + y ELSE y, m0, d)
    ELSE NaN

getUTCFullYear(t) == IF IsNum(t) THEN CivilFromDays(t).y ELSE NaN
getUTCMonth(t) == IF IsNum(t) THEN CivilFromDays(t).m - 1 ELSE NaN
getUTCDate(t) == IF IsNum(t) THEN CivilFromDays(t).d ELSE NaN

\* date.setUTCMonth(m0): the same year and day of month, month m0, carried over.
WithMonth(civil, m0) == MakeDay(civil.y, m0, civil.d)
setUTCMonth(t, m0) == IF IsNum(t) /\ IsNum(m0) THEN WithMonth(CivilFromDays(t), m0) ELSE NaN

\* date.setUTCDate(d): the same year and month, day d.
WithDate(civil, d) == MakeDay(civil.y, civil.m - 1, d)
setUTCDate(t, d) == IF IsNum(t) THEN WithDate(CivilFromDays(t), d) ELSE NaN

\* ------------------------------------------------------------- date tokens

(* A date token is the string of an event's "date".  The script reads it    *)
(* only through endsWith('?'), split('-') and parseInt, so a token is kept  *)
(* as: q, whether it ends with '?'; parts, the pieces between the '-' of    *)
(* the rest, each with val (what parseInt returns for it: the value of its  *)
(* leading digits, NaN when it has none), width (its length in characters)  *)
(* and clean (it consists of digits only).                                  *)
Part(v, w) == [val |-> v, width |-> w, clean |-> TRUE]
Junk(v, w) == [val |-> v, width |-> w, clean |-> FALSE]

\* "YYYY-MM-DD" and "YYYY-MM-DD?".
Tok(y, m, d) == [parts |-> <<Part(y, 4), Part(m, 2), Part(d, 2)>>, q |-> FALSE]
TokQ(y, m, d) == [parts |-> <<Part(y, 4), Part(m, 2), Part(d, 2)>>, q |-> TRUE]

\* The schema's pattern ^\d{4}-\d{2}-\d{2}\??$ for an event date.
MatchesPattern(t) ==
    /\ Len(t.parts) = 3
    /\ \A i \in 1..3 : t.parts[i].clean
    /\ t.parts[1].width = 4 /\ t.parts[2].width = 2 /\ t.parts[3].width = 2

parseInt(parts, i) == IF i <= Len(parts) THEN parts[i].val ELSE NaN

parseDate(dateString) ==
    [date |-> DateUTC(parseInt(dateString.parts, 1),
                      Sub(parseInt(dateString.parts, 2), 1),
                      parseInt(dateString.parts, 3)),
     isUncertain |-> dateString.q]

diffDays(date1, date2) == Sub(date2, date1)

\* ---------------------------------------------------------- formatDateVerbose

(* A formatted date is the sequence of the words of the string, the pieces  *)
(* between its spaces.                                                      *)
MonthNames ==
    <<"January", "February", "March", "April", "May", "June", "July", "August",
      "September", "October", "November", "December">>

\* 1970-01-01 was a Thursday.
WeekdayNames ==
    <<"Thursday", "Friday", "Saturday", "Sunday", "Monday", "Tuesday", "Wednesday">>

\* date.toLocaleDateString('en-US', {year, month: 'long', timeZone: 'UTC'}).
MonthAndYear(civil) == <<MonthNames[civil.m], ToString(civil.y)>>

\* The same with weekday: 'long' and day: 'numeric'.
WeekdayMonthDayYear(t, civil) ==
    <<WeekdayNames[(t % 7) + 1] \o ",", MonthNames[civil.m], ToString(civil.d) \o ",",
      ToString(civil.y)>>

\* toLocaleDateString of an Invalid Date is the string "Invalid Date".
toLocaleDateString(t, withDay) ==
    IF ~IsNum(t) THEN <<"Invalid", "Date">>
    ELSE IF withDay THEN WeekdayMonthDayYear(t, CivilFromDays(t))
    ELSE MonthAndYear(CivilFromDays(t))

\* Lines 410-414: the (?) goes after the first of two words.
InjectMark(parts) == IF Len(parts) = 2 THEN <<parts[1], "(?)", parts[2]>> ELSE parts

\* The formatter had line 406 been left out: every date is formatted in full.
formatDateVerbose_AlwaysExact(date, isUncertain) == toLocaleDateString(date, TRUE)

formatDateVerbose(date, isUncertain) ==
    IF isUncertain THEN InjectMark(toLocaleDateString(date, FALSE))
    ELSE toLocaleDateString(date, TRUE)

\* ---------------------------------------------------------------- dataset

(* The dataset is a sequence of conferences                                 *)
(*   [conference |-> name, installments |-> <<installment, ...>>]           *)
(* an installment is [year |-> y, cycles |-> <<cycle, ...>>], a cycle is    *)
(* [nameLen |-> n, dates |-> <<event, ...>>] where n is name.length (0 for  *)
(* an empty or absent name: the layout reads the name's truthiness and      *)
(* length only), and an event is [date |-> token].  An absent installments, *)
(* cycles or dates array is the empty sequence: every reader of these goes  *)
(* through ?.forEach or tests !dates first.                                 *)
Ev(t) == [date |-> t]
Cycle(n, ds) == [nameLen |-> n, dates |-> ds]
Inst(y, cs) == [year |-> y, cycles |-> cs]
Conf(name, is) == [conference |-> name, installments |-> is]

RECURSIVE Concat(_)
Concat(ss) == IF ss = <<>> THEN <<>> ELSE Head(ss) \o Concat(Tail(ss))

\* The cycles of a conference in the order the nested forEach loops visit
\* them, each with the index of its installment.
CyclesOf(conf) ==
    Concat([i \in 1..Len(conf.installments) |->
              [j \in 1..Len(conf.installments[i].cycles) |->
                 [inst |-> i, cyc |-> j, cycle |-> conf.installments[i].cycles[j]]]])

\* Every event date token of the conferences, in visiting order.
CycleTokens(cycle) == [e \in 1..Len(cycle.dates) |-> cycle.dates[e].date]

ConferenceTokens(conf) ==
    Concat([i \in 1..Len(conf.installments) |->
              Concat([j \in 1..Len(conf.installments[i].cycles) |->
                        CycleTokens(conf.installments[i].cycles[j])])])

EventTokens(conferences) ==
    Concat([c \in 1..Len(conferences) |-> ConferenceTokens(conferences[c])])

\* ------------------------------------------------ calculateTimelineDateRange

(* The scan of lines 656-666 keeps two references to Date objects.  ref     *)
(* names the object: 0 and -1 are the two sentinels, k >= 1 is the Date     *)
(* made by parseDate for the k-th event.  minDate and maxDate may be one    *)
(* and the same object.  "if (d < minDate) minDate = d" over the events in  *)
(* order leaves minDate at the first event whose date is below the sentinel *)
(* and not above any other such date (an Invalid Date compares false and is *)
(* passed over); likewise maxDate.                                          *)
\* The Date of every event, each parsed once (line 660): a sequence of values.
EventTimes(tokens) == <<>> \o [k \in 1..Len(tokens) |-> parseDate(tokens[k]).date]

\* Line 661 over all events: the event minDate refers to, 0 for the sentinel.
ScanMin(times) ==
    IF \E k \in 1..Len(times) : Lt(times[k], MAX_TIME_DAYS)
    THEN CHOOSE k \in 1..Len(times) :
            /\ Lt(times[k], MAX_TIME_DAYS)
            /\ \A j \in 1..Len(times) :
                  Lt(times[j], MAX_TIME_DAYS) =>
                     /\ times[k] <= times[j]
                     /\ j < k => times[k] < times[j]
    ELSE 0

\* Line 662 over all events: the event maxDate refers to, -1 for the sentinel.
ScanMax(times) ==
    IF \E k \in 1..Len(times) : Gt(times[k], MIN_TIME_DAYS)
    THEN CHOOSE k \in 1..Len(times) :
            /\ Gt(times[k], MIN_TIME_DAYS)
            /\ \A j \in 1..Len(times) :
                  Gt(times[j], MIN_TIME_DAYS) =>
                     /\ times[k] >= times[j]
                     /\ j < k => times[k] > times[j]
    ELSE -1

ScanRefs(times, minRef, maxRef) ==
    [minT |-> IF minRef > 0 THEN times[minRef] ELSE MAX_TIME_DAYS, minRef |-> minRef,
     maxT |-> IF maxRef > 0 THEN times[maxRef] ELSE MIN_TIME_DAYS, maxRef |-> maxRef]

ScanDates(times) == ScanRefs(times, ScanMin(times), ScanMax(times))

\* date.setUTCMonth(date.getUTCMonth() + delta); date.setUTCDate(1)
PadToMonthStart(t, delta) == setUTCDate(setUTCMonth(t, getUTCMonth(t) + delta), 1)

\* Line 674 and the result.
DateRange(minDate, maxDate) ==
    [minDate |-> minDate, maxDate |-> maxDate,
     totalTimelineDays |-> diffDays(minDate, maxDate)]

(* Lines 671-672 mutate the object maxDate refers to.  When minDate refers  *)
(* to the same object (same), that is the object lines 669-670 have just    *)
(* set to minPadded, and minDate reads the new value too.                   *)
PadMax(same, minPadded, maxT) ==
    IF same
    THEN DateRange(PadToMonthStart(minPadded, 1), PadToMonthStart(minPadded, 1))
    ELSE DateRange(minPadded, PadToMonthStart(maxT, 1))

\* Lines 668-675 after the scan.
PadRange(scan) ==
    PadMax(scan.minRef = scan.maxRef, PadToMonthStart(scan.minT, -1), scan.maxT)

calculateTimelineDateRange(conferencesToRender) ==
    PadRange(ScanDates(EventTimes(EventTokens(conferencesToRender))))

\* ---------------------------------------------------- calculateSvgDimensions

(* pixelsPerDay is the rational num/den.  totalSvgTimelineWidth, the        *)
(* product totalTimelineDays * pixelsPerDay, is kept as its factors: days   *)
(* times num over den.                                                      *)
\* Line 687 without the small-screen branch: twelve months on every screen.
InitialViewDays_AlwaysYear(today, innerWidth) ==
    diffDays(today, setUTCMonth(today, getUTCMonth(today) + 12))

\* Lines 686-692.
InitialViewDays(today, innerWidth) ==
    diffDays(today,
             setUTCMonth(today, getUTCMonth(today)
                                + (IF innerWidth < SMALL_BREAKPOINT THEN 3 ELSE 12)))

PixelsPerDay(initialViewDays, scrollContainerWidth) ==
    IF initialViewDays > 0
    THEN [num |-> scrollContainerWidth, den |-> initialViewDays]
    ELSE [num |-> 1, den |-> 1]

SvgDimensions(totalTimelineDays, pixelsPerDay, initialViewDays) ==
    [totalSvgTimelineWidth |-> [days |-> totalTimelineDays,
                                num |-> pixelsPerDay.num, den |-> pixelsPerDay.den],
     pixelsPerDay |-> pixelsPerDay,
     initialViewDays |-> initialViewDays]

ScaleFor(totalTimelineDays, scrollContainerWidth, initialViewDays) ==
    SvgDimensions(totalTimelineDays, PixelsPerDay(initialViewDays, scrollContainerWidth),
                  initialViewDays)

calculateSvgDimensions(totalTimelineDays, today, scrollContainerWidth, innerWidth) ==
    ScaleFor(totalTimelineDays, scrollContainerWidth, InitialViewDays(today, innerWidth))

\* (days / totalTimelineDays) * totalSvgTimelineWidth, in 1/den pixels: NaN
\* when days is NaN or when totalTimelineDays is 0 (0/0, or Infinity * 0).
PixelOf(days, totalTimelineDays, totalSvgTimelineWidth) ==
    IF IsNum(days) /\ totalTimelineDays # 0
    THEN days * totalSvgTimelineWidth.num
    ELSE NaN

\* ------------------------------------------------- calculateConferenceLayouts

(* Lines 720-727 for a cycle of at least two dates.  cycleMinDate starts   *)
(* at the first date and the loop lowers it to every smaller date; started  *)
(* at an Invalid Date it stays there, every comparison being false.         *)
(* cycleMaxDate starts at the last date; the loop starts at the second     *)
(* date, so the first date never raises it.                                 *)
CycleTimes(dates) == <<>> \o [i \in 1..Len(dates) |-> parseDate(dates[i].date).date]

SpanMin(times) ==
    IF IsNum(times[1])
    THEN CHOOSE t \in {times[i] : i \in 1..Len(times)} :
            IsNum(t) /\ \A i \in 1..Len(times) : IsNum(times[i]) => t <= times[i]
    ELSE NaN

SpanMax(times) ==
    IF IsNum(times[Len(times)])
    THEN CHOOSE t \in {times[i] : i \in 2..Len(times)} :
            IsNum(t) /\ \A i \in 2..Len(times) : IsNum(times[i]) => t >= times[i]
    ELSE NaN

CycleMinMax(times) == [min |-> SpanMin(times), max |-> SpanMax(times)]

CycleSpan(dates) == CycleMinMax(CycleTimes(dates))

\* Line 738 without labelPadding.
LabelWidth_NoPadding(cycle) == IF cycle.nameLen > 0 THEN cycle.nameLen * 8 ELSE 0

\* labelText.length * estimatedCharWidth + labelPadding, in whole pixels.
LabelWidth(cycle) == IF cycle.nameLen > 0 THEN cycle.nameLen * 8 + 15 ELSE 0

\* Line 744 with > for >=.
FitsRow_Strict(effectiveStartX, endX) == Gt(effectiveStartX, endX)

\* Line 744: the cycle fits the row whose rightmost end is endX.
FitsRow(effectiveStartX, endX) == Ge(effectiveStartX, endX)

\* Line 743 with the loop starting at i = 1: the first row is never tried.
FirstFitRow_SkipFirst(conferenceRows, effectiveStartX) ==
    IF \E i \in 2..Len(conferenceRows) : FitsRow(effectiveStartX, conferenceRows[i])
    THEN CHOOSE i \in 2..Len(conferenceRows) :
            /\ FitsRow(effectiveStartX, conferenceRows[i])
            /\ \A j \in 2..(i - 1) : ~FitsRow(effectiveStartX, conferenceRows[j])
    ELSE 0

\* The first row (1-based) the cycle fits, 0 when it fits none.
FirstFitRow(conferenceRows, effectiveStartX) ==
    IF \E i \in 1..Len(conferenceRows) : FitsRow(effectiveStartX, conferenceRows[i])
    THEN CHOOSE i \in 1..Len(conferenceRows) :
            /\ FitsRow(effectiveStartX, conferenceRows[i])
            /\ \A j \in 1..(i - 1) : ~FitsRow(effectiveStartX, conferenceRows[j])
    ELSE 0

(* The packing state st is [conferenceRows, cycleLayouts, maxRows]; a row   *)
(* is its endX, rowIndex counts from 0 as in the script.                    *)
\* Lines 746, 754, 757, 758.
AssignRow(st, entry, startXPixel, endXPixel, labelWidth, fit, assignedRowIndex) ==
    [conferenceRows |->
        IF fit > 0 THEN [st.conferenceRows EXCEPT ![fit] = endXPixel]
        ELSE Append(st.conferenceRows, endXPixel),
     cycleLayouts |->
        Append(st.cycleLayouts,
               [inst |-> entry.inst, cyc |-> entry.cyc, rowIndex |-> assignedRowIndex,
                startXPixel |-> startXPixel, endXPixel |-> endXPixel,
                labelWidth |-> labelWidth]),
     maxRows |-> IF assignedRowIndex + 1 > st.maxRows
                 THEN assignedRowIndex + 1 ELSE st.maxRows]

\* Lines 753-754 swapped: the length is read after the push.
PlaceInRow_PushFirst(st, entry, startXPixel, endXPixel, labelWidth, fit) ==
    AssignRow(st, entry, startXPixel, endXPixel, labelWidth, fit,
              IF fit > 0 THEN fit - 1 ELSE Len(st.conferenceRows) + 1)

\* Lines 742-755: the row found, or a new one.
PlaceInRow(st, entry, startXPixel, endXPixel, labelWidth, fit) ==
    AssignRow(st, entry, startXPixel, endXPixel, labelWidth, fit,
              IF fit > 0 THEN fit - 1 ELSE Len(st.conferenceRows))

\* Line 744 with startXPixel for effectiveStartX: the label is forgotten.
PlaceAt_NoLabel(st, entry, startXPixel, endXPixel, labelWidth, den) ==
    PlaceInRow(st, entry, startXPixel, endXPixel, labelWidth,
               FirstFitRow(st.conferenceRows, startXPixel))

\* Lines 739-749: the overlap check uses the start less the label.
PlaceAt(st, entry, startXPixel, endXPixel, labelWidth, den) ==
    PlaceInRow(st, entry, startXPixel, endXPixel, labelWidth,
               FirstFitRow(st.conferenceRows, Sub(startXPixel, labelWidth * den)))

\* Lines 729-738 with cycleMinDate for cycleMaxDate in line 730: the span ends
\* where it starts.
PlaceSpan_EndAtStart(st, entry, span, minDate, totalTimelineDays, totalSvgTimelineWidth) ==
    PlaceAt(st, entry,
            PixelOf(MathMax(0, diffDays(minDate, span.min)),
                    totalTimelineDays, totalSvgTimelineWidth),
            PixelOf(MathMin(totalTimelineDays, diffDays(minDate, span.min)),
                    totalTimelineDays, totalSvgTimelineWidth),
            LabelWidth(entry.cycle), totalSvgTimelineWidth.den)

\* Lines 729-738.
PlaceSpan(st, entry, span, minDate, totalTimelineDays, totalSvgTimelineWidth) ==
    PlaceAt(st, entry,
            PixelOf(MathMax(0, diffDays(minDate, span.min)),
                    totalTimelineDays, totalSvgTimelineWidth),
            PixelOf(MathMin(totalTimelineDays, diffDays(minDate, span.max)),
                    totalTimelineDays, totalSvgTimelineWidth),
            LabelWidth(entry.cycle), totalSvgTimelineWidth.den)

\* One pass of the body of inst.cycles.forEach (lines 717-759).
PlaceCycle(st, entry, minDate, totalTimelineDays, totalSvgTimelineWidth) ==
    IF Len(entry.cycle.dates) < 2 THEN st
    ELSE PlaceSpan(st, entry, CycleSpan(entry.cycle.dates), minDate,
                   totalTimelineDays, totalSvgTimelineWidth)

EmptyPacking == [conferenceRows |-> <<>>, cycleLayouts |-> <<>>, maxRows |-> 0]

RECURSIVE PlaceCycles(_, _, _, _, _, _)
PlaceCycles(st, entries, k, minDate, totalTimelineDays, totalSvgTimelineWidth) ==
    IF k > Len(entries) THEN st
    ELSE Result({PlaceCycles(placed, entries, k + 1, minDate, totalTimelineDays,
                             totalSvgTimelineWidth) :
                   placed \in {PlaceCycle(st, entries[k], minDate, totalTimelineDays,
                                          totalSvgTimelineWidth)}})

\* Line 763 without the padding between the rows.
ConfHeight_RowsOnly(maxRows) == maxRows * BAR_HEIGHT

\* Line 763.
ConfHeight(maxRows) ==
    IF maxRows = 0 THEN 0
    ELSE maxRows * BAR_HEIGHT + (IF maxRows - 1 > 0 THEN maxRows - 1 ELSE 0) * CYCLE_PADDING

\* Line 764.
ConferenceLayout(conf, st) ==
    [conf |-> conf, confHeight |-> ConfHeight(st.maxRows), cycleLayouts |-> st.cycleLayouts]

\* Line 765 with the padding added whatever the height.
RECURSIVE SumHeights_AlwaysPadded(_, _)
SumHeights_AlwaysPadded(layouts, k) ==
    IF k > Len(layouts) THEN 0
    ELSE layouts[k].confHeight + CONFERENCE_PADDING
         + SumHeights_AlwaysPadded(layouts, k + 1)

\* Line 765, summed over the conferences.
RECURSIVE SumHeights(_, _)
SumHeights(layouts, k) ==
    IF k > Len(layouts) THEN 0
    ELSE layouts[k].confHeight
         + (IF layouts[k].confHeight > 0 THEN CONFERENCE_PADDING ELSE 0)
         + SumHeights(layouts, k + 1)

\* Lines 710 and 765 without the loop of lines 769-775: the last padding stays.
TotalRequiredHeight_KeepsPadding(conferenceLayouts) ==
    MONTH_LABEL_HEIGHT + SumHeights(conferenceLayouts, 1)

\* Lines 710 and 769-775: the padding after the last visible conference goes.
TotalRequiredHeight(conferenceLayouts) ==
    MONTH_LABEL_HEIGHT + SumHeights(conferenceLayouts, 1)
    - (IF \E c \in 1..Len(conferenceLayouts) : conferenceLayouts[c].confHeight > 0
       THEN CONFERENCE_PADDING ELSE 0)

\* Line 777.
TotalSvgHeight(totalRequiredHeight) ==
    IF totalRequiredHeight > MONTH_LABEL_HEIGHT THEN totalRequiredHeight
    ELSE MONTH_LABEL_HEIGHT

LayoutResult(conferenceLayouts) ==
    [conferenceLayouts |-> conferenceLayouts,
     totalSvgHeight |-> TotalSvgHeight(TotalRequiredHeight(conferenceLayouts))]

calculateConferenceLayouts(conferences, minDate, totalTimelineDays, totalSvgTimelineWidth) ==
    LayoutResult(
        [c \in 1..Len(conferences) |->
           ConferenceLayout(conferences[c],
                            PlaceCycles(EmptyPacking, CyclesOf(conferences[c]), 1, minDate,
                                        totalTimelineDays, totalSvgTimelineWidth))])

\* ----------------------------------------------------- renderConferenceCycles

(* The rectangles renderTimelineBar appends for one cycle (lines 880-925),  *)
(* in order.  x and width are in 1/den pixels; label says that              *)
(* renderCycleLabel drew the cycle's name at this rectangle's left edge.    *)
\* Lines 894-920 without the test of line 897.
SegmentBar_NoWidthCheck(cl, i, drawn, cycleY, duration, inside, x, width, den) ==
    [renders |-> inside,
     bar |-> [x |-> x, y |-> cycleY, width |-> width, height |-> BAR_HEIGHT,
              colorIndex |-> (i - 1) % 10, inst |-> cl.inst, cyc |-> cl.cyc, seg |-> i,
              durationDays |-> duration,
              label |-> (~drawn) /\ cl.labelWidth > 0]]

\* Lines 894-920 for the pair (i, i + 1), and whether line 897 lets it render.
SegmentBar(cl, i, drawn, cycleY, duration, inside, x, width, den) ==
    [renders |-> inside /\ Ge(width, den),
     bar |-> [x |-> x, y |-> cycleY, width |-> width, height |-> BAR_HEIGHT,
              colorIndex |-> (i - 1) % 10, inst |-> cl.inst, cyc |-> cl.cyc, seg |-> i,
              durationDays |-> duration,
              label |-> (~drawn) /\ cl.labelWidth > 0]]

\* Line 895 with the start not taken off: the width runs from minDate.
SegmentClamped_WidthFromOrigin(cl, i, drawn, cycleY, duration, valid, clampedStartDays, clampedEndDays, totalTimelineDays, totalSvgTimelineWidth) ==
    SegmentBar(cl, i, drawn, cycleY, duration,
               valid /\ Lt(clampedStartDays, clampedEndDays),
               PixelOf(clampedStartDays, totalTimelineDays, totalSvgTimelineWidth),
               PixelOf(clampedEndDays, totalTimelineDays, totalSvgTimelineWidth),
               totalSvgTimelineWidth.den)

\* Lines 890-895.
SegmentClamped(cl, i, drawn, cycleY, duration, valid, clampedStartDays, clampedEndDays, totalTimelineDays, totalSvgTimelineWidth) ==
    SegmentBar(cl, i, drawn, cycleY, duration,
               valid /\ Lt(clampedStartDays, clampedEndDays),
               PixelOf(clampedStartDays, totalTimelineDays, totalSvgTimelineWidth),
               PixelOf(Sub(clampedEndDays, clampedStartDays),
                       totalTimelineDays, totalSvgTimelineWidth),
               totalSvgTimelineWidth.den)

\* Lines 887-891.
Segment(cl, i, drawn, cycleY, segmentStartDate, segmentEndDate, minDate, totalTimelineDays, totalSvgTimelineWidth, maxDate) ==
    SegmentClamped(cl, i, drawn, cycleY, diffDays(segmentStartDate, segmentEndDate),
                   /\ Lt(segmentStartDate, segmentEndDate)
                   /\ Gt(segmentEndDate, minDate)
                   /\ Lt(segmentStartDate, maxDate),
                   MathMax(0, diffDays(minDate, segmentStartDate)),
                   MathMin(totalTimelineDays, diffDays(minDate, segmentEndDate)),
                   totalTimelineDays, totalSvgTimelineWidth)

\* Lines 907-908 and 910: the two dates as the bar's popover words them.
WithPopover(g, start, end) ==
    [renders |-> g.renders,
     bar |-> g.bar @@ [formattedStartDate |-> formatDateVerbose(start.date, start.isUncertain),
                       formattedEndDate |-> formatDateVerbose(end.date, end.isUncertain)]]

\* Lines 881-884: the pair (i, i + 1) of the cycle's dates.
SegmentAt(cl, dates, i, drawn, cycleY, minDate, totalTimelineDays, totalSvgTimelineWidth, maxDate) ==
    WithPopover(Segment(cl, i, drawn, cycleY, parseDate(dates[i].date).date,
                        parseDate(dates[i + 1].date).date, minDate, totalTimelineDays,
                        totalSvgTimelineWidth, maxDate),
                parseDate(dates[i].date), parseDate(dates[i + 1].date))

\* The loop of line 880; firstSegmentX is no longer -1 once a pair rendered.
CycleSegments(cl, dates, cycleY, minDate, totalTimelineDays, totalSvgTimelineWidth, maxDate) ==
    [i \in 1..(Len(dates) - 1) |->
       SegmentAt(cl, dates, i,
                 \E j \in 1..(i - 1) :
                    SegmentAt(cl, dates, j, FALSE, cycleY, minDate, totalTimelineDays,
                              totalSvgTimelineWidth, maxDate).renders,
                 cycleY, minDate, totalTimelineDays, totalSvgTimelineWidth, maxDate)]

BarsOf(segments) == [k \in 1..Len(segments) |-> segments[k].bar]

CycleBars(cl, dates, cycleY, minDate, totalTimelineDays, totalSvgTimelineWidth, maxDate) ==
    BarsOf(SelectSeq(CycleSegments(cl, dates, cycleY, minDate, totalTimelineDays,
                                   totalSvgTimelineWidth, maxDate),
                     LAMBDA g : g.renders))

renderConferenceCycles(cycleLayouts, conf, conferenceStartY, minDate, totalTimelineDays, totalSvgTimelineWidth, maxDate) ==
    Concat([k \in 1..Len(cycleLayouts) |->
              CycleBars(cycleLayouts[k],
                        conf.installments[cycleLayouts[k].inst].cycles[cycleLayouts[k].cyc].dates,
                        conferenceStartY + cycleLayouts[k].rowIndex * (BAR_HEIGHT + CYCLE_PADDING),
                        minDate, totalTimelineDays, totalSvgTimelineWidth, maxDate)])

\* currentY when the forEach of lines 1149-1158 reaches conference c.
RECURSIVE CurrentY(_, _)
CurrentY(conferenceLayouts, c) ==
    IF c = 1 THEN MONTH_LABEL_HEIGHT
    ELSE CurrentY(conferenceLayouts, c - 1)
         + (IF conferenceLayouts[c - 1].confHeight > 0
            THEN conferenceLayouts[c - 1].confHeight + CONFERENCE_PADDING ELSE 0)

\* ---------------------------------------------------- sortConferenceDataDates

\* The comparator of line 1182; sort takes a NaN result for 0.
NumberOrZero(v) == IF IsNum(v) THEN v ELSE 0
CompareDates(a, b) == NumberOrZero(Sub(parseDate(a.date).date, parseDate(b.date).date))

\* Array.prototype.sort is stable: an event moves left past the events that
\* compare greater than it.
RECURSIVE InsertSorted(_, _)
InsertSorted(sorted, e) ==
    IF sorted = <<>> THEN <<e>>
    ELSE IF CompareDates(sorted[Len(sorted)], e) > 0
         THEN Append(InsertSorted(SubSeq(sorted, 1, Len(sorted) - 1), e), sorted[Len(sorted)])
         ELSE Append(sorted, e)

RECURSIVE SortDates(_, _)
SortDates(dates, k) ==
    IF k = 0 THEN <<>> ELSE InsertSorted(SortDates(dates, k - 1), dates[k])

\* Lines 1180-1183.
SortCycle(cycle) ==
    IF Len(cycle.dates) > 1
    THEN [cycle EXCEPT !.dates = SortDates(cycle.dates, Len(cycle.dates))]
    ELSE cycle

\* loadAndRenderTimeline without line 1200: the dataset stays as fetched.
sortConferenceDataDates_Skipped(data) == data

sortConferenceDataDates(data) ==
    [c \in 1..Len(data) |->
       [data[c] EXCEPT !.installments =
          [i \in 1..Len(data[c].installments) |->
             [data[c].installments[i] EXCEPT !.cycles =
                [j \in 1..Len(data[c].installments[i].cycles) |->
                   SortCycle(data[c].installments[i].cycles[j])]]]]]

\* ------------------------------------------------------------------ state

\* null, and a value that is not null.
Null == [null |-> TRUE]
Some(v) == [null |-> FALSE, value |-> v]

VARIABLES
    pc,                 \* where loadAndRenderTimeline stands
    response,           \* what fetch('data.json') will deliver
    domFilterContainer, \* whether the page holds #filter-container
    conferenceData,     \* the global of line 427
    filterContainer,    \* the global of line 429 is set
    boxes,              \* the .conference-filter-checkbox inputs, in order
    selectAll,          \* #filter-all is checked
    storage,            \* localStorage's conferenceFilterState item
    innerWidth,         \* window.innerWidth
    clientWidth,        \* #timeline-scroll-container's clientWidth
    isDarkMode,         \* prefers-color-scheme: dark matches
    today,              \* the day getTodaysDate() returns
    ticks,              \* midnights passed since the page opened
    labelContainer,     \* children of #timeline-labels
    scrollContainer,    \* children of #timeline-scroll-container
    wrapperMinHeight,   \* #timeline-wrapper's style.minHeight
    calls,              \* the calculators the last run of renderTimeline called
    pack                \* the forEach loop of lines 716-760, cycle by cycle

vars == <<pc, response, domFilterContainer, conferenceData, filterContainer, boxes,
          selectAll, storage, innerWidth, clientWidth, isDarkMode, today, ticks,
          labelContainer, scrollContainer, wrapperMinHeight, calls, pack>>

\* ------------------------------------------------------------ filter controls

(* localStorage keeps the item as JSON text.  The text of an object is its   *)
(* members in the order the keys were first set, each a key and a value.    *)
\* JSON.stringify(state) for the object state whose keys were set in the
\* order keys (line 446).
JSONstringify(state, keys) ==
    [k \in 1..Len(keys) |-> [key |-> keys[k], value |-> state[keys[k]]]]

\* JSON.parse(text) (line 460): a key that comes twice keeps its last value.
JSONparse(text) ==
    [n \in {text[k].key : k \in 1..Len(text)} |->
       text[CHOOSE k \in 1..Len(text) :
               /\ text[k].key = n
               /\ \A l \in (k + 1)..Len(text) : text[l].key # n].value]

\* Lines 457-467: null when there is no item, else the parsed object.
loadFilterState(item) ==
    IF item.null THEN Null ELSE Some(JSONparse(item.value))

\* Line 548 with ?? false: a conference without an entry starts unchecked.
InitialChecked_DefaultUnchecked(name, savedFilterState) ==
    IF savedFilterState.null THEN TRUE
    ELSE IF name \in DOMAIN savedFilterState.value
         THEN savedFilterState.value[name] ELSE FALSE

\* Line 548: the saved entry of the conference, checked when there is none.
InitialChecked(name, savedFilterState) ==
    IF savedFilterState.null THEN TRUE
    ELSE IF name \in DOMAIN savedFilterState.value
         THEN savedFilterState.value[name] ELSE TRUE

\* The checkboxes renderFilterControls builds (lines 599-602).
renderFilterControls(conferences, savedFilterState) ==
    [c \in 1..Len(conferences) |->
       [value |-> conferences[c].conference,
        checked |-> InitialChecked(conferences[c].conference, savedFilterState)]]

\* Line 620 with some for every: one checked box checks #filter-all.
updateSelectAllCheckboxState_AnyChecked(bx) ==
    IF Len(bx) = 0 THEN FALSE ELSE \E i \in 1..Len(bx) : bx[i].checked

\* What updateSelectAllCheckboxState leaves in #filter-all.
updateSelectAllCheckboxState(bx) ==
    IF Len(bx) = 0 THEN FALSE ELSE \A i \in 1..Len(bx) : bx[i].checked

\* The object saveFilterState writes: a later checkbox of the same value
\* overwrites an earlier one.
SavedState(bx) ==
    [n \in {bx[i].value : i \in 1..Len(bx)} |->
       bx[CHOOSE i \in 1..Len(bx) :
             /\ bx[i].value = n
             /\ \A j \in (i + 1)..Len(bx) : bx[j].value # n].checked]

\* The values of the checkboxes in the order line 444 first sets them.
StateKeys(bx) ==
    LET first == SelectSeq([i \in 1..Len(bx) |-> i],
                           LAMBDA i : \A j \in 1..(i - 1) : bx[j].value # bx[i].value)
    IN  [k \in 1..Len(first) |-> bx[first[k]].value]

\* Lines 439-451: the item saveFilterState sets.
saveFilterState(bx) == Some(JSONstringify(SavedState(bx), StateKeys(bx)))
removeFilterState == Null

\* Lines 518-522 and 566-570 without the removeFilterState branch.
StoreFilterState_AlwaysSaves(allChecked, bx) == saveFilterState(bx)

\* Lines 518-522 and 566-570.
StoreFilterState(allChecked, bx) ==
    IF allChecked THEN removeFilterState ELSE saveFilterState(bx)

\* -------------------------------------------------------------- renderTimeline

NoneSelected == [tag |-> "p", text |-> "No conferences selected"]
LoadError == [tag |-> "p", text |-> "Error loading timeline data"]

\* Lines 1104-1106 without the filter: every conference is kept.
ConferencesToRender_All(data, bx) == data

\* Lines 1104-1106.
ConferencesToRender(data, bx) ==
    SelectSeq(data, LAMBDA conf :
        \E i \in 1..Len(bx) : bx[i].checked /\ bx[i].value = conf.conference)

\* renderConferenceLabels: one label for each conference of positive height.
VisibleLabels(conferenceLayouts) ==
    SelectSeq([c \in 1..Len(conferenceLayouts) |->
                 [conference |-> conferenceLayouts[c].conf.conference,
                  height |-> conferenceLayouts[c].confHeight + CONFERENCE_PADDING]],
              LAMBDA l : l.height > CONFERENCE_PADDING)

\* Lines 1148-1158: the bars of each conference block.
Blocks(conferenceLayouts, range, totalSvgTimelineWidth) ==
    [c \in 1..Len(conferenceLayouts) |->
       [conference |-> conferenceLayouts[c].conf.conference,
        confHeight |-> conferenceLayouts[c].confHeight,
        cycleLayouts |-> conferenceLayouts[c].cycleLayouts,
        bars |-> IF conferenceLayouts[c].confHeight > 0
                 THEN renderConferenceCycles(
                        conferenceLayouts[c].cycleLayouts, conferenceLayouts[c].conf,
                        CurrentY(conferenceLayouts, c) + CONFERENCE_PADDING \div 2,
                        range.minDate, range.totalTimelineDays,
                        totalSvgTimelineWidth, range.maxDate)
                 ELSE <<>>]]

\* Lines 1134-1164: the svg element and the labels.
RenderLayout(conferencesToRender, range, dims, lay, dark, td) ==
    [labels |-> VisibleLabels(lay.conferenceLayouts),
     svg |-> [tag |-> "svg",
              width |-> dims.totalSvgTimelineWidth,
              height |-> lay.totalSvgHeight,
              minDate |-> range.minDate,
              maxDate |-> range.maxDate,
              totalTimelineDays |-> range.totalTimelineDays,
              initialViewDays |-> dims.initialViewDays,
              today |-> td,
              dark |-> dark,
              blocks |-> Blocks(lay.conferenceLayouts, range, dims.totalSvgTimelineWidth)],
     calls |-> <<[fn |-> "calculateTimelineDateRange",
                  conferences |-> Len(conferencesToRender),
                  dates |-> Len(EventTokens(conferencesToRender))],
                 [fn |-> "calculateSvgDimensions"],
                 [fn |-> "calculateConferenceLayouts"]>>]

\* Line 1131.
RenderDims(conferencesToRender, range, dims, dark, td) ==
    Result({RenderLayout(conferencesToRender, range, dims, lay, dark, td) :
              lay \in {calculateConferenceLayouts(conferencesToRender, range.minDate,
                                                  range.totalTimelineDays,
                                                  dims.totalSvgTimelineWidth)}})

\* Line 1130.
RenderRange(conferencesToRender, range, iw, cw, dark, td) ==
    Result({RenderDims(conferencesToRender, range, dims, dark, td) :
              dims \in {calculateSvgDimensions(range.totalTimelineDays, td, cw, iw)}})

\* Lines 1123-1164 for a non-empty selection.
RenderedTimeline(conferencesToRender, iw, cw, dark, td) ==
    Result({RenderRange(conferencesToRender, range, iw, cw, dark, td) :
              range \in {calculateTimelineDateRange(conferencesToRender)}})

\* The page's elements renderTimeline writes to, as the state holds them.
Page ==
    [labelContainer |-> labelContainer, scrollContainer |-> scrollContainer,
     wrapperMinHeight |-> wrapperMinHeight]

\* The panes had lines 1119-1120 been left out: the timeline r is added to
\* what the page dom holds already.
AppendPanes(dom, r) ==
    [labelContainer |-> dom.labelContainer \o r.labels,
     scrollContainer |-> Append(dom.scrollContainer, r.svg),
     wrapperMinHeight |-> "", calls |-> r.calls]

\* Lines 1119-1120 empty both panes of the page dom; lines 1139 and 1142 fill
\* them with the timeline r.
ReplacePanes(dom, r) ==
    [labelContainer |-> r.labels, scrollContainer |-> <<r.svg>>,
     wrapperMinHeight |-> "", calls |-> r.calls]

\* The pass had lines 1109-1116 been left out: an empty selection goes
\* through the calculators like any other.
RenderSelection_NoEmptyState(dom, conferencesToRender, iw, cw, dark, td) ==
    ReplacePanes(dom, RenderedTimeline(conferencesToRender, iw, cw, dark, td))

\* Lines 1108-1164.
RenderSelection(dom, conferencesToRender, iw, cw, dark, td) ==
    IF Len(conferencesToRender) = 0
    THEN [labelContainer |-> <<>>, scrollContainer |-> <<NoneSelected>>,
          wrapperMinHeight |-> "50px", calls |-> <<>>]
    ELSE ReplacePanes(dom, RenderedTimeline(conferencesToRender, iw, cw, dark, td))

\* renderTimeline taking a dataset not yet stored for an empty one: instead
\* of returning at line 1090 it shows the empty state of lines 1109-1116.
renderTimeline_NullAsEmpty(dom, cd, fc, bx, iw, cw, dark, td) ==
    IF cd.null
    THEN RenderSelection(dom, <<>>, iw, cw, dark, td)
    ELSE IF ~fc
    THEN [labelContainer |-> dom.labelContainer, scrollContainer |-> dom.scrollContainer,
          wrapperMinHeight |-> dom.wrapperMinHeight, calls |-> <<>>]
    ELSE Result({RenderSelection(dom, conferencesToRender, iw, cw, dark, td) :
              conferencesToRender \in {ConferencesToRender(cd.value, bx)}})

\* renderTimeline had line 1098 not asked for filterContainer: a stored
\* dataset is drawn whether or not the filter container was found.
renderTimeline_NoContainerCheck(dom, cd, fc, bx, iw, cw, dark, td) ==
    IF cd.null
    THEN [labelContainer |-> dom.labelContainer, scrollContainer |-> dom.scrollContainer,
          wrapperMinHeight |-> dom.wrapperMinHeight, calls |-> <<>>]
    ELSE Result({RenderSelection(dom, conferencesToRender, iw, cw, dark, td) :
              conferencesToRender \in {ConferencesToRender(cd.value, bx)}})

(* renderTimeline (lines 1087-1165) run on the page dom with the globals   *)
(* cd and fc, the checkboxes bx and the environment iw, cw, dark, td: what  *)
(* it leaves in the two panes and the wrapper, and the calculators it       *)
(* called.  The three elements themselves are part of the page.             *)
renderTimeline(dom, cd, fc, bx, iw, cw, dark, td) ==
    IF cd.null \/ ~fc
    THEN [labelContainer |-> dom.labelContainer, scrollContainer |-> dom.scrollContainer,
          wrapperMinHeight |-> dom.wrapperMinHeight, calls |-> <<>>]
    ELSE Result({RenderSelection(dom, conferencesToRender, iw, cw, dark, td) :
              conferencesToRender \in {ConferencesToRender(cd.value, bx)}})

\* The step's run of renderTimeline decides the panes.
Rendered(r) ==
    /\ labelContainer' = r.labelContainer
    /\ scrollContainer' = r.scrollContainer
    /\ wrapperMinHeight' = r.wrapperMinHeight
    /\ calls' = r.calls

\* ----------------------------------------------------------------- inputs

MaxConfs == 2     \* conferences in a dataset
MaxTicks == 1     \* midnights that pass while the page is open
MaxCycles == 3    \* cycles of the conference whose packing is followed

\* Three installment-cycles, one labelled and out of date order, one with a
\* repeated date and an uncertain one.
ConfUSENIX ==
    Conf("USENIX",
         <<Inst(2025, <<Cycle(7, <<Ev(Tok(2025, 3, 1)), Ev(Tok(2025, 1, 14)),
                                   Ev(TokQ(2025, 6, 15))>>),
                        Cycle(7, <<Ev(Tok(2025, 6, 1)), Ev(Tok(2025, 2, 20))>>)>>),
           Inst(2026, <<Cycle(0, <<Ev(Tok(2025, 9, 2)), Ev(Tok(2025, 9, 2)),
                                   Ev(Tok(2026, 1, 10))>>)>>)>>)

\* A single event date; a cycle without dates and an installment without cycles.
ConfSOUPS ==
    Conf("SOUPS", <<Inst(2025, <<Cycle(0, <<Ev(Tok(2025, 2, 13))>>), Cycle(5, <<>>)>>),
                    Inst(2026, <<>>)>>)

\* Event dates on the last day of a month; a cycle of one date before them.
ConfPETS ==
    Conf("PETS", <<Inst(2025, <<Cycle(4, <<Ev(Tok(2025, 4, 10))>>),
                                Cycle(5, <<Ev(Tok(2025, 3, 31)),
                                           Ev(Tok(2025, 5, 31))>>)>>)>>)

\* No installments yet.
ConfCHI == Conf("CHI", <<>>)

ConferencePool == {ConfUSENIX, ConfSOUPS, ConfPETS, ConfCHI}

\* The arrays data.json may hold: conferences of the pool, no name twice.
DatasetsOf(pool) ==
    UNION {{d \in [1..n -> pool] : \A i, j \in 1..n : i # j => d[i] # d[j]} :
           n \in 0..MaxConfs}

\* What fetch delivers: an HTTP error, a body that is not JSON, a dataset.
ResponsesOf(pool) ==
    {[ok |-> FALSE, json |-> Null], [ok |-> TRUE, json |-> Null]}
    \cup {[ok |-> TRUE, json |-> Some(d)] : d \in DatasetsOf(pool)}

\* localStorage before the page opens: nothing, or an earlier visit's state.
StoredStates ==
    {Null, Some(<<[key |-> "USENIX", value |-> FALSE], [key |-> "SOUPS", value |-> TRUE]>>)}

\* A phone and a desktop window.
Viewports == {[innerWidth |-> 375, clientWidth |-> 340],
              [innerWidth |-> 1280, clientWidth |-> 900]}

Todays == {DaysFromCivil(2024, 11, 30), DaysFromCivil(2025, 1, 15)}

PackIdle ==
    [entries |-> <<>>, k |-> 1, st |-> EmptyPacking, minDate |-> 0,
     totalTimelineDays |-> 0,
     totalSvgTimelineWidth |-> [days |-> 0, num |-> 1, den |-> 1]]

\* The page before DOMContentLoaded, data.json holding a dataset of pool, in
\* a window of views.
InitIn(pool, views) ==
    /\ pc = "idle"
    /\ response \in ResponsesOf(pool)
    /\ domFilterContainer \in BOOLEAN
    /\ conferenceData = Null
    /\ filterContainer = FALSE
    /\ boxes = <<>>
    /\ selectAll = FALSE
    /\ storage \in StoredStates
    /\ \E v \in views : innerWidth = v.innerWidth /\ clientWidth = v.clientWidth
    /\ isDarkMode \in BOOLEAN
    /\ today \in Todays
    /\ ticks = 0
    /\ labelContainer = <<>>
    /\ scrollContainer = <<>>
    /\ wrapperMinHeight = ""
    /\ calls = <<>>
    /\ pack = PackIdle

InitOf(pool) == InitIn(pool, Viewports)

Init == InitOf(ConferencePool)

\* ---------------------------------------------------------------- actions

\* Line 1225: loadAndRenderTimeline starts and awaits fetch.
DOMContentLoaded ==
    /\ pc = "idle"
    /\ pc' = "fetch"
    /\ UNCHANGED <<response, domFilterContainer, conferenceData, filterContainer, boxes,
                   selectAll, storage, innerWidth, clientWidth, isDarkMode, today, ticks,
                   labelContainer, scrollContainer, wrapperMinHeight, calls, pack>>

\* Lines 1210-1216: the catch block.
Caught ==
    /\ pc' = "failed"
    /\ scrollContainer' = <<LoadError>>
    /\ UNCHANGED <<response, domFilterContainer, boxes, selectAll, storage, innerWidth,
                   clientWidth, isDarkMode, today, ticks, labelContainer,
                   wrapperMinHeight, calls, pack>>

\* Lines 1195-1197: the response is not ok.
FetchFailed ==
    /\ pc = "fetch"
    /\ ~response.ok
    /\ Caught
    /\ UNCHANGED <<conferenceData, filterContainer>>

\* Line 1198: the response is ok, response.json() is awaited.
FetchSucceeded ==
    /\ pc = "fetch"
    /\ response.ok
    /\ pc' = "json"
    /\ UNCHANGED <<response, domFilterContainer, conferenceData, filterContainer, boxes,
                   selectAll, storage, innerWidth, clientWidth, isDarkMode, today, ticks,
                   labelContainer, scrollContainer, wrapperMinHeight, calls, pack>>

\* Line 1198: response.json() rejects.
JsonRejected ==
    /\ pc = "json"
    /\ response.json.null
    /\ Caught
    /\ UNCHANGED <<conferenceData, filterContainer>>

\* Lines 1207-1208 with the checkboxes bx that renderFilterControls built.
FiltersRendered(data, bx) ==
    /\ boxes' = bx
    /\ selectAll' = updateSelectAllCheckboxState(bx)
    /\ Rendered(renderTimeline(Page, Some(data), TRUE, bx, innerWidth, clientWidth,
                               isDarkMode, today))

\* Lines 1198-1208 with the sorted dataset.
Loaded(data) ==
    /\ conferenceData' = Some(data)
    /\ IF domFilterContainer
       THEN /\ filterContainer' = TRUE
            /\ \E bx \in {renderFilterControls(data, loadFilterState(storage))} :
                  FiltersRendered(data, bx)
            /\ pc' = "done"
            /\ UNCHANGED <<response, domFilterContainer, storage, innerWidth, clientWidth,
                           isDarkMode, today, ticks, pack>>
       ELSE /\ Caught
            /\ UNCHANGED filterContainer

\* Lines 1198-1208: response.json() resolves.
JsonResolved ==
    /\ pc = "json"
    /\ ~response.json.null
    /\ \E data \in {sortConferenceDataDates(response.json.value)} : Loaded(data)

\* Line 1228 with a pass that filters conferenceData in place: the global
\* keeps the conferences drawn only.
Resize_FilterInPlace ==
    /\ \E v \in Viewports :
          /\ innerWidth' = v.innerWidth
          /\ clientWidth' = v.clientWidth
          /\ Rendered(renderTimeline(Page, conferenceData, filterContainer, boxes,
                                     v.innerWidth, v.clientWidth, isDarkMode, today))
    /\ conferenceData' = IF conferenceData.null THEN conferenceData
                         ELSE Some(ConferencesToRender(conferenceData.value, boxes))
    /\ UNCHANGED <<pc, response, domFilterContainer, filterContainer,
                   boxes, selectAll, storage, isDarkMode, today, ticks, pack>>

\* Line 1228: the window is resized.
Resize ==
    /\ \E v \in Viewports :
          /\ innerWidth' = v.innerWidth
          /\ clientWidth' = v.clientWidth
          /\ Rendered(renderTimeline(Page, conferenceData, filterContainer, boxes,
                                     v.innerWidth, v.clientWidth, isDarkMode, today))
    /\ UNCHANGED <<pc, response, domFilterContainer, conferenceData, filterContainer,
                   boxes, selectAll, storage, isDarkMode, today, ticks, pack>>

\* Line 1231: the system colour scheme changes.
ColorSchemeChange ==
    /\ isDarkMode' = ~isDarkMode
    /\ Rendered(renderTimeline(Page, conferenceData, filterContainer, boxes, innerWidth,
                               clientWidth, ~isDarkMode, today))
    /\ UNCHANGED <<pc, response, domFilterContainer, conferenceData, filterContainer,
                   boxes, selectAll, storage, innerWidth, clientWidth, today, ticks, pack>>

\* Lines 509-523 with the checkboxes as line 513 leaves them.
AllSetTo(isChecked, bx) ==
    /\ selectAll' = isChecked
    /\ boxes' = bx
    /\ Rendered(renderTimeline(Page, conferenceData, filterContainer, bx, innerWidth,
                               clientWidth, isDarkMode, today))
    /\ storage' = StoreFilterState(isChecked, bx)

\* Lines 509-523: the user clicks #filter-all.
SelectAllChange ==
    /\ pc = "done"
    /\ AllSetTo(~selectAll, [i \in 1..Len(boxes) |-> [boxes[i] EXCEPT !.checked = ~selectAll]])
    /\ UNCHANGED <<pc, response, domFilterContainer, conferenceData, filterContainer,
                   innerWidth, clientWidth, isDarkMode, today, ticks, pack>>

\* Lines 560-571 with the checkboxes after the click.
BoxesSetTo(bx) ==
    /\ boxes' = bx
    /\ selectAll' = updateSelectAllCheckboxState(bx)
    /\ Rendered(renderTimeline(Page, conferenceData, filterContainer, bx, innerWidth,
                               clientWidth, isDarkMode, today))
    /\ storage' = StoreFilterState(updateSelectAllCheckboxState(bx), bx)

\* Lines 560-571: the user clicks a conference's checkbox.
CheckboxChange ==
    /\ pc = "done"
    /\ \E i \in 1..Len(boxes) :
          BoxesSetTo([boxes EXCEPT ![i].checked = ~boxes[i].checked])
    /\ UNCHANGED <<pc, response, domFilterContainer, conferenceData, filterContainer,
                   innerWidth, clientWidth, isDarkMode, today, ticks, pack>>

\* Midnight passes: getTodaysDate() returns the next day from now on.
Tick ==
    /\ ticks < MaxTicks
    /\ ticks' = ticks + 1
    /\ today' = today + 1
    /\ UNCHANGED <<pc, response, domFilterContainer, conferenceData, filterContainer,
                   boxes, selectAll, storage, innerWidth, clientWidth, isDarkMode,
                   labelContainer, scrollContainer, wrapperMinHeight, calls, pack>>

Next ==
    \/ DOMContentLoaded
    \/ FetchFailed
    \/ FetchSucceeded
    \/ JsonRejected
    \/ JsonResolved
    \/ Resize
    \/ ColorSchemeChange
    \/ SelectAllChange
    \/ CheckboxChange
    \/ Tick

Spec == Init /\ [][Next]_vars

\* ------------------------------------------------ the packing, cycle by cycle

(* The forEach loops of lines 716-760 followed one cycle at a time, for a   *)
(* page that shows one conference: pack.k is the next cycle of pack.entries *)
(* to visit, pack.st the rows and layouts so far.                           *)

\* The cycles a conference may hold: spans between the firsts of January to
\* April 2025, one of no length, each named or not; and a lone date.
PackDays == <<Tok(2025, 1, 1), Tok(2025, 2, 1), Tok(2025, 3, 1), Tok(2025, 4, 1)>>

PackSpans == {<<1, 2>>, <<1, 3>>, <<2, 4>>, <<3, 4>>, <<2, 2>>}

PackCycles ==
    {Cycle(n, <<Ev(PackDays[sp[1]]), Ev(PackDays[sp[2]])>>) :
        n \in {0, 7}, sp \in PackSpans}
    \cup {Cycle(0, <<Ev(PackDays[2])>>)}

\* A conference of the cycles cs, the first half in one installment.
PackConf(cs) ==
    Conf("PACK", <<Inst(2025, SubSeq(cs, 1, (Len(cs) + 1) \div 2)),
                   Inst(2026, SubSeq(cs, (Len(cs) + 1) \div 2 + 1, Len(cs)))>>)

PackConferences ==
    {PackConf(cs) : cs \in UNION {[1..n -> PackCycles] : n \in 0..MaxCycles}}

\* The arguments line 1131 passes for the conference.
PackArgs(conf, range, dims) ==
    [entries |-> CyclesOf(conf), k |-> 1, st |-> EmptyPacking,
     minDate |-> range.minDate, totalTimelineDays |-> range.totalTimelineDays,
     totalSvgTimelineWidth |-> dims.totalSvgTimelineWidth]

PackRange(conf, range, td, cw, iw) ==
    PackArgs(conf, range, calculateSvgDimensions(range.totalTimelineDays, td, cw, iw))

PackStart(conf, td, cw, iw) ==
    PackRange(conf, calculateTimelineDateRange(<<conf>>), td, cw, iw)

\* The page has loaded the one conference, all boxes checked, and the layout
\* pass has reached line 1131.
InitPackWith(data) ==
    /\ pc = "pack"
    /\ response = [ok |-> TRUE, json |-> Some(data)]
    /\ domFilterContainer = TRUE
    /\ conferenceData = Some(data)
    /\ filterContainer = TRUE
    /\ boxes = renderFilterControls(data, Null)
    /\ selectAll = TRUE
    /\ storage = Null
    /\ \E v \in Viewports : innerWidth = v.innerWidth /\ clientWidth = v.clientWidth
    /\ isDarkMode = FALSE
    /\ today = DaysFromCivil(2025, 1, 15)
    /\ ticks = 0
    /\ labelContainer = <<>>
    /\ scrollContainer = <<>>
    /\ wrapperMinHeight = ""
    /\ calls = <<>>
    /\ pack = PackStart(data[1], today, clientWidth, innerWidth)

InitPack == \E conf \in PackConferences : InitPackWith(sortConferenceDataDates(<<conf>>))

\* One pass of the body of inst.cycles.forEach (lines 717-759).
PackStep ==
    /\ pc = "pack"
    /\ pack.k <= Len(pack.entries)
    /\ pack' = [pack EXCEPT !.k = @ + 1,
                            !.st = PlaceCycle(pack.st, pack.entries[pack.k], pack.minDate,
                                              pack.totalTimelineDays,
                                              pack.totalSvgTimelineWidth)]
    /\ UNCHANGED <<pc, response, domFilterContainer, conferenceData, filterContainer,
                   boxes, selectAll, storage, innerWidth, clientWidth, isDarkMode, today,
                   ticks, labelContainer, scrollContainer, wrapperMinHeight, calls>>

\* Lines 1134-1164 once the loops are through: the pass draws the timeline.
PackRendered ==
    /\ pc = "pack"
    /\ pack.k > Len(pack.entries)
    /\ pc' = "done"
    /\ Rendered(renderTimeline(Page, conferenceData, filterContainer, boxes, innerWidth,
                               clientWidth, isDarkMode, today))
    /\ UNCHANGED <<response, domFilterContainer, conferenceData, filterContainer, boxes,
                   selectAll, storage, innerWidth, clientWidth, isDarkMode, today, ticks,
                   pack>>

NextPack ==
    \/ PackStep
    \/ PackRendered

SpecPack == InitPack /\ [][NextPack]_vars

\* ------------------------------------------------- a dataset out of its schema

\* "2025/02/10": no '-' in it, so parseInt finds a year only.
TokSlashes == [parts |-> <<Junk(2025, 10)>>, q |-> FALSE]

\* "2025-2-10": a month of one digit.
TokShortMonth == [parts |-> <<Part(2025, 4), Part(2, 1), Part(10, 2)>>, q |-> FALSE]

ConfNDSS ==
    Conf("NDSS", <<Inst(2025, <<Cycle(4, <<Ev(Tok(2025, 1, 10)), Ev(TokSlashes)>>),
                                Cycle(0, <<Ev(TokShortMonth), Ev(Tok(2025, 4, 2))>>)>>)>>)

MalformedPool == {ConfNDSS, ConfPETS}

InitMalformed == InitOf(MalformedPool)

SpecMalformed == InitMalformed /\ [][Next]_vars

\* ------------------------------------------------- the page in a narrow column

\* A cycle with a pair one day long and a pair of no length before its last
\* date.
ConfCCS ==
    Conf("CCS", <<Inst(2025, <<Cycle(3, <<Ev(Tok(2025, 5, 1)), Ev(Tok(2025, 5, 2)),
                                         Ev(Tok(2025, 5, 2)), Ev(Tok(2025, 6, 1))>>)>>)>>)

NarrowPool == {ConfCCS, ConfPETS}

\* The scroll container is a 300 pixel column of an 800 pixel window: with
\* the window of twelve months a day is less than a pixel.
NarrowViewports == {[innerWidth |-> 800, clientWidth |-> 300]}

InitNarrow == InitIn(NarrowPool, NarrowViewports)

SpecNarrow == InitNarrow /\ [][Next]_vars

\* ------------------------------------------------------- row packing claims

\* The layouts placed so far, and whether the loops have visited every cycle.
PackLayouts == pack.st.cycleLayouts
PackDone == pc = "pack" /\ pack.k > Len(pack.entries)

\* startXPixel - labelWidth of a layout, in the unit of the pixel values.
EffectiveStartX(cl) == Sub(cl.startXPixel, cl.labelWidth * pack.totalSvgTimelineWidth.den)

\* The date span of the cycle a layout belongs to.
SpanOfEntry(e) == CycleSpan(pack.entries[e].cycle.dates)
SpanOf(cl) ==
    SpanOfEntry(CHOOSE e \in 1..Len(pack.entries) :
                   pack.entries[e].inst = cl.inst /\ pack.entries[e].cyc = cl.cyc)

\* Two date spans share more than one instant; two date spans are apart.
SpansOverlap(a, b) == Lt(a.min, b.max) /\ Lt(b.min, a.max)
SpansDisjoint(a, b) == Lt(a.max, b.min) \/ Lt(b.max, a.min)

\* Every pixel extent among the layouts L is a number.
NumericExtents(L) ==
    \A i \in 1..Len(L) : IsNum(L[i].startXPixel) /\ IsNum(L[i].endXPixel)

(* C1: cycles of one conference that share a row do not collide: whenever   *)
(* A was placed before B in the same row, B.startXPixel - B.labelWidth is   *)
(* at or after A.endXPixel; and two cycles whose date spans overlap are     *)
(* never in the same row.  Checked after every placement, for every order   *)
(* and naming of the cycles.                                                *)
C1_ConflictFreeIn(L) ==
    /\ \A i, j \in 1..Len(L) :
          (i < j /\ L[i].rowIndex = L[j].rowIndex) =>
             Ge(EffectiveStartX(L[j]), L[i].endXPixel)
    /\ \A i, j \in 1..Len(L) :
          (i < j /\ L[i].rowIndex = L[j].rowIndex) =>
             ~SpansOverlap(SpanOf(L[i]), SpanOf(L[j]))

C1_ConflictFree == C1_ConflictFreeIn(PackLayouts)

\* A named cycle shares a row with an earlier one while a third, whose span
\* overlaps another's, has a row of its own.
C1_WitnessIn(L) ==
    /\ \E i, j \in 1..Len(L) :
          i < j /\ L[i].rowIndex = L[j].rowIndex /\ L[j].labelWidth > 0
    /\ \E i, j \in 1..Len(L) : i # j /\ SpansOverlap(SpanOf(L[i]), SpanOf(L[j]))

C1_Witness == PackDone /\ C1_WitnessIn(PackLayouts)

\* The cycles of the conference that are placed: those of two dates or more.
Placeable == {e \in 1..Len(pack.entries) : Len(pack.entries[e].cycle.dates) >= 2}

\* The cycles open at the day t: their date spans contain it.
OpenAt(t) == {f \in Placeable : SpanOfEntry(f).min <= t /\ t <= SpanOfEntry(f).max}

(* C2 as stated: once every cycle of the conference is placed, the number   *)
(* of rows is at most the largest number of cycles whose date spans contain *)
(* a common instant.                                                        *)
C2_RowsWithinOpenCycles ==
    PackDone =>
       \/ pack.st.maxRows = 0
       \/ \E e \in Placeable :
             Cardinality(OpenAt(SpanOfEntry(e).min)) >= pack.st.maxRows

\* The layouts whose extent from effective start to end contains the pixel x.
SharingIn(L, x) ==
    {i \in 1..Len(L) : Ge(x, EffectiveStartX(L[i])) /\ Ge(L[i].endXPixel, x)}

\* Numeric extents, visited in non-decreasing order of effective start.
InEffectiveStartOrder(L) ==
    /\ NumericExtents(L)
    /\ \A i, j \in 1..Len(L) :
          i < j => Ge(EffectiveStartX(L[j]), EffectiveStartX(L[i]))

(* C2 amended: when the cycles placed so far have numeric pixel extents and *)
(* came in non-decreasing order of effective start, the number of rows is   *)
(* at most the largest number of them whose extents from                    *)
(* startXPixel - labelWidth to endXPixel contain a common point.            *)
C2_RowsWithinSharedIn(L) ==
    InEffectiveStartOrder(L) =>
       \/ pack.st.maxRows = 0
       \/ \E j \in 1..Len(L) :
             Cardinality(SharingIn(L, EffectiveStartX(L[j]))) >= pack.st.maxRows

C2_RowsWithinShared == C2_RowsWithinSharedIn(PackLayouts)

\* Three cycles in order of effective start packed into two rows.
C2_Witness ==
    /\ PackDone
    /\ Len(PackLayouts) = 3
    /\ InEffectiveStartOrder(PackLayouts)
    /\ pack.st.maxRows = 2

\* The extent of b from its effective start overlaps the bar of a.
ExtentsOverlap(a, b) ==
    Lt(EffectiveStartX(b), a.endXPixel) /\ Lt(a.startXPixel, b.endXPixel)

\* No cycle placed before the j-th in row r overlaps the j-th.
RowFree(L, j, r) ==
    \A i \in 1..(j - 1) : L[i].rowIndex = r => ~ExtentsOverlap(L[i], L[j])

(* C3 as stated: every cycle with numeric extents is in the lowest row in   *)
(* which its effective extent overlaps no cycle placed before it; a row     *)
(* holding no cycle yet is the new row.                                     *)
C3_LowestNonOverlappingIn(L) ==
    NumericExtents(L) =>
       \A j \in 1..Len(L) :
          /\ RowFree(L, j, L[j].rowIndex)
          /\ \A r \in 0..(L[j].rowIndex - 1) : ~RowFree(L, j, r)

C3_LowestNonOverlapping == C3_LowestNonOverlappingIn(PackLayouts)

\* The j-th cycle starts, label included, at or after the end of every cycle
\* placed before it in row r.
RowFits(L, j, r) ==
    \A i \in 1..(j - 1) :
       L[i].rowIndex = r => Ge(EffectiveStartX(L[j]), L[i].endXPixel)

\* The rows in use before the j-th cycle is placed.
RowsBefore(L, j) == {L[i].rowIndex : i \in 1..(j - 1)}

(* C3 amended: every cycle is in the lowest existing row in which its       *)
(* effective start is at or after the endXPixel of every cycle placed       *)
(* before it, whether or not it overlaps any of them; it opens a new row,   *)
(* the next index, only when no existing row is such.                       *)
C3_LowestFittingIn(L) ==
    \A j \in 1..Len(L) :
       IF \E r \in RowsBefore(L, j) : RowFits(L, j, r)
       THEN /\ L[j].rowIndex \in RowsBefore(L, j)
            /\ RowFits(L, j, L[j].rowIndex)
            /\ \A r \in RowsBefore(L, j) : r < L[j].rowIndex => ~RowFits(L, j, r)
       ELSE L[j].rowIndex = Cardinality(RowsBefore(L, j))

C3_LowestFitting == C3_LowestFittingIn(PackLayouts)

\* A cycle opened a second row although it overlaps nothing in the first,
\* and a later cycle went back to the first row.
C3_WitnessIn(L) ==
    /\ NumericExtents(L)
    /\ \E j \in 1..Len(L) : L[j].rowIndex = 1 /\ RowFree(L, j, 0)
    /\ \E j \in 2..Len(L) : L[j].rowIndex = 0

C3_Witness == PackDone /\ C3_WitnessIn(PackLayouts)

\* The conference has placed exactly two cycles and their date spans are apart.
TwoDisjointCycles(L) ==
    PackDone /\ Len(L) = 2 /\ SpansDisjoint(SpanOf(L[1]), SpanOf(L[2]))

(* C4 as stated: two cycles of a conference whose date spans are disjoint   *)
(* are both in row 0.                                                       *)
C4_DisjointSameRowIn(L) ==
    TwoDisjointCycles(L) => L[1].rowIndex = 0 /\ L[2].rowIndex = 0

C4_DisjointSameRow == C4_DisjointSameRowIn(PackLayouts)

(* C4 amended: of two cycles with disjoint date spans that are the only     *)
(* placed cycles of a conference, the first in dataset order is in row 0;   *)
(* the second is in row 0 exactly when it is the later one and its          *)
(* startXPixel - labelWidth is at or after the first's endXPixel, which is  *)
(* always so when it has no name; otherwise it is in row 1.                 *)
C4_DisjointRowsIn(L) ==
    TwoDisjointCycles(L) =>
       /\ L[1].rowIndex = 0
       /\ L[2].rowIndex \in {0, 1}
       /\ L[2].rowIndex = 0 <=>
             /\ Lt(SpanOf(L[1]).max, SpanOf(L[2]).min)
             /\ Ge(EffectiveStartX(L[2]), L[1].endXPixel)
       /\ (Lt(SpanOf(L[1]).max, SpanOf(L[2]).min) /\ L[2].labelWidth = 0) =>
             L[2].rowIndex = 0

C4_DisjointRows == C4_DisjointRowsIn(PackLayouts)

\* The later cycle comes second, has a name, and its label fits the gap.
C4_WitnessIn(L) ==
    /\ TwoDisjointCycles(L)
    /\ Lt(SpanOf(L[1]).max, SpanOf(L[2]).min)
    /\ L[2].labelWidth > 0
    /\ L[2].rowIndex = 0

C4_Witness == C4_WitnessIn(PackLayouts)

\* ------------------------------------------------------ renderTimeline claims

\* The conferences the checkboxes enable, and their event dates.
Enabled ==
    IF conferenceData.null THEN <<>> ELSE ConferencesToRender(conferenceData.value, boxes)

EnabledTokens == EventTokens(Enabled)
EnabledTimes == EventTimes(EnabledTokens)

\* The scroll pane holds a timeline drawn by a completed pass.
RenderedSvg ==
    /\ pc = "done"
    /\ Len(scrollContainer) = 1
    /\ scrollContainer[1].tag = "svg"

\* The page as a pass that returned r leaves it.
PageAfter(r) ==
    [labelContainer |-> r.labelContainer, scrollContainer |-> r.scrollContainer,
     wrapperMinHeight |-> r.wrapperMinHeight]

\* renderTimeline run on the page dom with the state's dataset, selection,
\* widths, colour mode and today.
RenderOn(dom) ==
    renderTimeline(dom, conferenceData, filterContainer, boxes, innerWidth, clientWidth,
                   isDarkMode, today)

SecondPassSame(first) == RenderOn(PageAfter(first)) = first

C6_PaddedStrictly ==
    (RenderedSvg /\ Len(EnabledTimes) > 0) =>
        /\ getUTCDate(scrollContainer[1].minDate) = 1
        /\ getUTCDate(scrollContainer[1].maxDate) = 1
        /\ \A k \in 1..Len(EnabledTimes) :
              /\ Lt(scrollContainer[1].minDate, EnabledTimes[k])
              /\ Gt(scrollContainer[1].maxDate, EnabledTimes[k])

\* The day delta calendar months from day t: the same day of the month, or
\* the month's last day when the month is shorter.
ClampedDay(first, len, d) == first + (IF d <= len THEN d ELSE len) - 1

MonthsFromCivil(civil, delta) ==
    ClampedDay(MakeDay(civil.y, civil.m - 1 + delta, 1),
               MakeDay(civil.y, civil.m + delta, 1)
                 - MakeDay(civil.y, civil.m - 1 + delta, 1),
               civil.d)

CalendarMonthsFrom(t, delta) == MonthsFromCivil(CivilFromDays(t), delta)

(* C7: whenever a timeline is drawn for a selection with at least one      *)
(* event date, its minDate is no later than the earliest event date minus   *)
(* one calendar month and its maxDate no earlier than the latest event      *)
(* date plus one calendar month, whatever the day of the month.             *)
C7_FullMonthBuffer ==
    (RenderedSvg /\ Len(EnabledTimes) > 0) =>
        \A k \in 1..Len(EnabledTimes) :
           /\ scrollContainer[1].minDate <= CalendarMonthsFrom(EnabledTimes[k], -1)
           /\ scrollContainer[1].maxDate >= CalendarMonthsFrom(EnabledTimes[k], 1)

(* C8: when an enabled conference holds an event date that does not match  *)
(* YYYY-MM-DD with an optional '?', the pass is aborted: no timeline is     *)
(* drawn from it.                                                           *)
C8_MalformedAborts ==
    (pc = "done" /\ \E k \in 1..Len(EnabledTokens) : ~MatchesPattern(EnabledTokens[k]))
        => ~RenderedSvg

NoneChecked == \A i \in 1..Len(boxes) : ~boxes[i].checked

(* C9: when the page is loaded and no conference checkbox is checked, the  *)
(* scroll pane shows the 'No conferences selected' paragraph, the label     *)
(* pane is empty, and the last pass called none of the three calculators.   *)
C9_NoneCheckedEmptyState ==
    (pc = "done" /\ NoneChecked) =>
        /\ scrollContainer = <<NoneSelected>>
        /\ labelContainer = <<>>
        /\ calls = <<>>

\* The user has unchecked every checkbox of a loaded dataset.
C9_Witness ==
    /\ pc = "done"
    /\ Len(boxes) > 0
    /\ NoneChecked
    /\ scrollContainer = <<NoneSelected>>
    /\ wrapperMinHeight = "50px"

(* C10: when some conference is enabled but the enabled conferences hold   *)
(* no event date, no timeline is drawn and the last pass did not call       *)
(* calculateTimelineDateRange.                                              *)
C10_NoDatesShortCircuits ==
    (pc = "done" /\ Len(Enabled) > 0 /\ Len(EnabledTokens) = 0) =>
        /\ ~RenderedSvg
        /\ \A i \in 1..Len(calls) : calls[i].fn # "calculateTimelineDateRange"

\* ------------------------------------------------------------- layout claims

\* The timeline on the page, its blocks in the order of the enabled conferences.
Svg == scrollContainer[1]

\* The conference has a cycle of two dates or more.
HasPlaceableCycle(conf) ==
    \E e \in 1..Len(CyclesOf(conf)) : Len(CyclesOf(conf)[e].cycle.dates) >= 2

\* Cycle e of the conference has no layout and no bar in the block.
NotDrawn(block, e) ==
    /\ \A k \in 1..Len(block.cycleLayouts) :
          ~(block.cycleLayouts[k].inst = e.inst /\ block.cycleLayouts[k].cyc = e.cyc)
    /\ \A b \in 1..Len(block.bars) :
          ~(block.bars[b].inst = e.inst /\ block.bars[b].cyc = e.cyc)

(* C11: in a drawn timeline, an enabled conference without a cycle of two   *)
(* dates (no installments, no cycles, no dates, or single dates only) has   *)
(* confHeight 0, no cycle layouts, no bars and no label; the canvas is as   *)
(* high as it is for the selection without those conferences; and a cycle   *)
(* of fewer than two dates has no row and no bar in any conference.         *)
C11_EmptyTakesNoSpace ==
    RenderedSvg =>
        /\ \A c \in 1..Len(Enabled) :
              ~HasPlaceableCycle(Enabled[c]) =>
                 /\ Svg.blocks[c].confHeight = 0
                 /\ Svg.blocks[c].cycleLayouts = <<>>
                 /\ Svg.blocks[c].bars = <<>>
                 /\ \A l \in 1..Len(labelContainer) :
                       labelContainer[l].conference # Enabled[c].conference
        /\ Svg.height =
              calculateConferenceLayouts(SelectSeq(Enabled, HasPlaceableCycle), Svg.minDate,
                                         Svg.totalTimelineDays, Svg.width).totalSvgHeight
        /\ \A c \in 1..Len(Enabled) : \A e \in 1..Len(CyclesOf(Enabled[c])) :
              Len(CyclesOf(Enabled[c])[e].cycle.dates) < 2 =>
                 NotDrawn(Svg.blocks[c], CyclesOf(Enabled[c])[e])

\* A conference with bars and a one-date cycle is followed by one with
\* nothing to place.
C11_Witness ==
    /\ RenderedSvg
    /\ Len(Enabled) = 2
    /\ ~HasPlaceableCycle(Enabled[2])
    /\ Svg.blocks[1].bars # <<>>
    /\ \E e \in 1..Len(CyclesOf(Enabled[1])) : Len(CyclesOf(Enabled[1])[e].cycle.dates) = 1

\* The whole width of the timeline in the unit of the bars' x and width
\* (1/den pixel): totalTimelineDays * num.
TotalWidthUnits == Svg.width.days * Svg.width.num

\* Days from minDate to the date of a token, clamped to the timeline.
ClampedOffset(tok) ==
    MathMin(Svg.totalTimelineDays, MathMax(0, Sub(parseDate(tok).date, Svg.minDate)))

\* x and width of a bar are its clamped day offsets d1 < d2 scaled by
\* totalPixelWidth / D.
BarAt(bar, d1, d2) ==
    /\ Lt(d1, d2)
    /\ bar.x * Svg.totalTimelineDays = d1 * TotalWidthUnits
    /\ bar.width * Svg.totalTimelineDays = (d2 - d1) * TotalWidthUnits

BarMapped(conf, bar) ==
    BarAt(bar,
          ClampedOffset(conf.installments[bar.inst].cycles[bar.cyc].dates[bar.seg].date),
          ClampedOffset(conf.installments[bar.inst].cycles[bar.cyc].dates[bar.seg + 1].date))

\* The selection is one conference whose only cycle runs from 2025-01-01 to
\* 2025-02-01.
JanuaryCycleAlone ==
    /\ Len(Enabled) = 1
    /\ Len(CyclesOf(Enabled[1])) = 1
    /\ CycleTokens(CyclesOf(Enabled[1])[1].cycle) = <<Tok(2025, 1, 1), Tok(2025, 2, 1)>>

(* C12: every bar of a drawn timeline has x = d1/D * totalPixelWidth and    *)
(* width = (d2 - d1)/D * totalPixelWidth, d1 < d2 being the clamped day     *)
(* offsets of its two dates from minDate and D the total span; and a lone   *)
(* cycle 2025-01-01..2025-02-01 gives exactly one bar, of 31 days, in row   *)
(* 0, 31/D of the total width wide.                                         *)
C12_PixelMapping ==
    RenderedSvg =>
        /\ \A c \in 1..Len(Svg.blocks) : \A b \in 1..Len(Svg.blocks[c].bars) :
              BarMapped(Enabled[c], Svg.blocks[c].bars[b])
        /\ JanuaryCycleAlone =>
              /\ Len(Svg.blocks[1].bars) = 1
              /\ Svg.blocks[1].bars[1].durationDays = 31
              /\ Svg.blocks[1].cycleLayouts[1].rowIndex = 0
              /\ Svg.blocks[1].bars[1].y = MONTH_LABEL_HEIGHT + CONFERENCE_PADDING \div 2
              /\ Svg.blocks[1].bars[1].width * Svg.totalTimelineDays
                    = 31 * TotalWidthUnits

\* The lone January cycle is drawn.
C12_Witness ==
    /\ RenderedSvg
    /\ JanuaryCycleAlone
    /\ Svg.blocks[1].bars # <<>>
    /\ Svg.totalTimelineDays = 90

\* ----------------------------------------------------------- date claims

\* The day a well-formed token names, read off its three numbers.
LiteralDay(tok) ==
    DaysFromCivil(tok.parts[1].val, tok.parts[2].val, tok.parts[3].val)

\* The words expected for a token: month, (?) and year when it ends with
\* '?', weekday, month, day and year when it does not.
ExpectedWords(tok) ==
    IF tok.q
    THEN <<MonthNames[tok.parts[2].val], "(?)", ToString(tok.parts[1].val)>>
    ELSE <<WeekdayNames[(LiteralDay(tok) % 7) + 1] \o ",", MonthNames[tok.parts[2].val],
           ToString(tok.parts[3].val) \o ",", ToString(tok.parts[1].val)>>

\* The bar's popover and duration are those of its two tokens.
BarWorded(bar, startTok, endTok) ==
    /\ bar.formattedStartDate = ExpectedWords(startTok)
    /\ bar.formattedEndDate = ExpectedWords(endTok)
    /\ bar.durationDays = LiteralDay(endTok) - LiteralDay(startTok)

BarWordedIn(conf, bar) ==
    BarWorded(bar, conf.installments[bar.inst].cycles[bar.cyc].dates[bar.seg].date,
              conf.installments[bar.inst].cycles[bar.cyc].dates[bar.seg + 1].date)

\* The dates of the cycle are in the order of their literal days.
InLiteralOrder(dates) ==
    \A i \in 1..(Len(dates) - 1) : LiteralDay(dates[i].date) <= LiteralDay(dates[i + 1].date)

(* C13: in a drawn timeline every token 'YYYY-MM-DD?' parses to the day     *)
(* YYYY-MM-DD with isUncertain true and every other token to its day with   *)
(* isUncertain false; the cycles' dates are sorted by that day; each bar's  *)
(* duration is the difference of its two days; and its popover words an     *)
(* uncertain date as month, (?), year and an exact date as weekday, month,  *)
(* day, year.                                                               *)
C13_UncertainDates ==
    RenderedSvg =>
        /\ \A k \in 1..Len(EnabledTokens) :
              /\ parseDate(EnabledTokens[k]).date = LiteralDay(EnabledTokens[k])
              /\ parseDate(EnabledTokens[k]).isUncertain = EnabledTokens[k].q
        /\ \A c \in 1..Len(Enabled) : \A e \in 1..Len(CyclesOf(Enabled[c])) :
              InLiteralOrder(CyclesOf(Enabled[c])[e].cycle.dates)
        /\ \A c \in 1..Len(Svg.blocks) : \A b \in 1..Len(Svg.blocks[c].bars) :
              BarWordedIn(Enabled[c], Svg.blocks[c].bars[b])

\* The bar from 2025-03-01 to 2025-06-15? is drawn.
C13_Witness ==
    /\ RenderedSvg
    /\ \E c \in 1..Len(Svg.blocks) : \E b \in 1..Len(Svg.blocks[c].bars) :
          /\ Svg.blocks[c].bars[b].formattedStartDate = <<"Saturday,", "March", "1,", "2025">>
          /\ Svg.blocks[c].bars[b].formattedEndDate = <<"June", "(?)", "2025">>
          /\ Svg.blocks[c].bars[b].durationDays = 106

\* ------------------------------------------------------------- scale claims

\* The days that end a window of k months opened on day t: the same day of
\* the month k months on, and, that month being shorter, either its last day
\* or the day as many days past its first as t is past the first of its own.
WindowEnds(t, k) ==
    {CalendarMonthsFrom(t, k),
     MakeDay(CivilFromDays(t).y, CivilFromDays(t).m - 1 + k, CivilFromDays(t).d)}

WindowMonths == IF innerWidth < SMALL_BREAKPOINT THEN 3 ELSE 12

(* C14: in a drawn timeline the initial window runs from the pass's today   *)
(* to the day 3 months on when the viewport is narrower than 768 and 12     *)
(* months on otherwise; pixelsPerDay times the window's days is the width   *)
(* of the scroll surface, whatever the day of the month; and the total      *)
(* width is the total day span times pixelsPerDay.                          *)
C14_Scale ==
    RenderedSvg =>
        /\ Svg.today + Svg.initialViewDays \in WindowEnds(Svg.today, WindowMonths)
        /\ Svg.initialViewDays > 0
        /\ Svg.width.num * Svg.initialViewDays = clientWidth * Svg.width.den
        /\ Svg.width.days = Svg.totalTimelineDays

\* A phone draws the timeline on 2024-11-30: the window ends on 2025-03-02,
\* 92 days on, February having no 30th.
C14_Witness ==
    /\ RenderedSvg
    /\ innerWidth < SMALL_BREAKPOINT
    /\ Svg.today = DaysFromCivil(2024, 11, 30)
    /\ Svg.initialViewDays = 92
    /\ Svg.width.num = clientWidth
    /\ Svg.width.den = 92

\* ------------------------------------------------------------ height claims

\* The largest rowIndex among the layouts plus one, 0 when there is none.
RowCountOf(layouts) ==
    IF layouts = <<>> THEN 0
    ELSE 1 + CHOOSE r \in {layouts[k].rowIndex : k \in 1..Len(layouts)} :
                 \A k \in 1..Len(layouts) : layouts[k].rowIndex <= r

HeightOfRows(rowCount) ==
    IF rowCount = 0 THEN 0
    ELSE rowCount * BAR_HEIGHT + (rowCount - 1) * CYCLE_PADDING

(* C15: at every point of the loops the conference's maxRows is the largest *)
(* rowIndex assigned so far plus one, 0 when no cycle has been placed; and  *)
(* in the drawn timeline every conference's confHeight is 0 when its row    *)
(* count is 0 and rowCount * 30 + (rowCount - 1) * 5 otherwise.             *)
C15_RowCountAndHeight ==
    /\ pack.st.maxRows = RowCountOf(PackLayouts)
    /\ RenderedSvg =>
          /\ Svg.blocks[1].cycleLayouts = PackLayouts
          /\ \A c \in 1..Len(Svg.blocks) :
                Svg.blocks[c].confHeight = HeightOfRows(RowCountOf(Svg.blocks[c].cycleLayouts))

\* A conference of three rows is drawn, 100 pixels high.
C15_Witness ==
    /\ RenderedSvg
    /\ pack.st.maxRows = 3
    /\ \E k \in 1..Len(PackLayouts) : PackLayouts[k].rowIndex = 2
    /\ Svg.blocks[1].confHeight = 100

\* confHeight + CONFERENCE_PADDING summed over the blocks k.. of positive
\* height.
RECURSIVE VisibleHeight(_, _)
VisibleHeight(blocks, k) ==
    IF k > Len(blocks) THEN 0
    ELSE (IF blocks[k].confHeight > 0 THEN blocks[k].confHeight + CONFERENCE_PADDING ELSE 0)
         + VisibleHeight(blocks, k + 1)

SomeVisible(blocks) == \E c \in 1..Len(blocks) : blocks[c].confHeight > 0

(* C16: the height of a drawn timeline is MONTH_LABEL_HEIGHT plus           *)
(* confHeight + CONFERENCE_PADDING for every conference of positive height, *)
(* less one CONFERENCE_PADDING when there is such a conference, wherever    *)
(* the conferences of height 0 stand in the list; it is never less than     *)
(* MONTH_LABEL_HEIGHT.                                                      *)
C16_CanvasHeight ==
    RenderedSvg =>
        /\ Svg.height = MONTH_LABEL_HEIGHT + VisibleHeight(Svg.blocks, 1)
                        - (IF SomeVisible(Svg.blocks) THEN CONFERENCE_PADDING ELSE 0)
        /\ Svg.height >= MONTH_LABEL_HEIGHT

\* Two conferences are drawn, the last of height 0: the canvas is the first
\* one's height above the month labels.
C16_Witness ==
    /\ RenderedSvg
    /\ Len(Svg.blocks) = 2
    /\ Svg.blocks[1].confHeight > 0
    /\ Svg.blocks[2].confHeight = 0
    /\ Svg.height = MONTH_LABEL_HEIGHT + Svg.blocks[1].confHeight

\* ------------------------------------------------------------- event claims

\* The names of the dataset's conferences whose checkbox is checked, in the
\* order of the dataset.
CheckedNames ==
    LET checked(conf) == \E i \in 1..Len(boxes) :
                            boxes[i].value = conf.conference /\ boxes[i].checked
        kept == SelectSeq(conferenceData.value, checked)
    IN  [c \in 1..Len(kept) |-> kept[c].conference]

\* The panes hold what a completed pass leaves for the present checkboxes,
\* widths, colour mode and today: the empty state when nothing is checked,
\* else a timeline of exactly the checked conferences in dataset order.
PassShown ==
    IF CheckedNames = <<>>
    THEN /\ scrollContainer = <<NoneSelected>>
         /\ labelContainer = <<>>
    ELSE /\ Len(scrollContainer) = 1
         /\ Svg.tag = "svg"
         /\ [c \in 1..Len(Svg.blocks) |-> Svg.blocks[c].conference] = CheckedNames
         /\ Svg.today = today
         /\ Svg.dark = isDarkMode
         /\ Svg.width.num = clientWidth
         /\ Len(calls) = 3

\* A step taken by a listener: the clock did not move.
EventStep == ticks' = ticks

PassOnlyStep == innerWidth' # innerWidth \/ isDarkMode' # isDarkMode

(* C18: once the dataset is loaded no step changes it: every conference,    *)
(* installment, cycle and event date and the order of every cycle's dates   *)
(* stay as the load left them through every layout pass; and a step that    *)
(* is a pass and nothing else (a resize, a colour-scheme change) leaves the *)
(* checkboxes, the select-all box and the persisted filter state as they    *)
(* were.                                                                    *)
C18_PassLeavesDataset ==
    [][(~conferenceData.null) =>
          /\ conferenceData' = conferenceData
          /\ PassOnlyStep => /\ boxes' = boxes
                             /\ selectAll' = selectAll
                             /\ storage' = storage]_vars

\* A pass has run after midnight on a dataset whose dates the load had to
\* reorder: the dataset is still the sorted one, one box is unchecked and the
\* persisted state is the one the page opened with.
C18_Witness ==
    /\ RenderedSvg
    /\ ticks = 1
    /\ Svg.today = today
    /\ conferenceData = Some(sortConferenceDataDates(response.json.value))
    /\ conferenceData.value # response.json.value
    /\ storage \in StoredStates \ {Null}
    /\ boxes = renderFilterControls(conferenceData.value, loadFilterState(storage))
    /\ \E i \in 1..Len(boxes) : ~boxes[i].checked

\* --------------------------------------------------------- first-fit claims

\* The cycles of the conference in dataset order: installment by
\* installment, and within an installment cycle by cycle.
InDatasetOrder(entries, conf) ==
    /\ Len(entries) = Len(Concat([i \in 1..Len(conf.installments) |->
                                     conf.installments[i].cycles]))
    /\ \A k \in 1..Len(entries) :
          entries[k].cycle = conf.installments[entries[k].inst].cycles[entries[k].cyc]
    /\ \A k \in 1..(Len(entries) - 1) :
          \/ entries[k].inst < entries[k + 1].inst
          \/ /\ entries[k].inst = entries[k + 1].inst
             /\ entries[k].cyc < entries[k + 1].cyc

\* startXPixel less the label's 8 pixels a character and 15 of padding, in
\* the unit of the pixel values.
EffectiveStartOf(cl, entry) ==
    Sub(cl.startXPixel,
        (IF entry.cycle.nameLen > 0 THEN 8 * entry.cycle.nameLen + 15 ELSE 0)
        * pack.totalSvgTimelineWidth.den)

\* The rows the layout cl fits, given the ends of the rows before it; no
\* row compares with a start that is not a number.
Qualifying(rows, cl, entry) ==
    {i \in 1..Len(rows) :
        /\ IsNum(rows[i])
        /\ IsNum(EffectiveStartOf(cl, entry))
        /\ rows[i] <= EffectiveStartOf(cl, entry)}

\* cl went to the lowest qualifying row, whose end became cl's end, or to a
\* new row when none qualified; every other row kept its end.
FirstFitted(rows, rowsAfter, cl, entry) ==
    IF Qualifying(rows, cl, entry) = {}
    THEN /\ cl.rowIndex = Len(rows)
         /\ rowsAfter = Append(rows, cl.endXPixel)
    ELSE /\ cl.rowIndex + 1 \in Qualifying(rows, cl, entry)
         /\ \A i \in Qualifying(rows, cl, entry) : cl.rowIndex + 1 <= i
         /\ rowsAfter = [rows EXCEPT ![cl.rowIndex + 1] = cl.endXPixel]

\* The step visited the cycle entry: it appended one layout, for that cycle,
\* placed first-fit.
PlacedFirstFit(entry) ==
    /\ pack'.st.cycleLayouts = Append(PackLayouts, pack'.st.cycleLayouts[Len(PackLayouts) + 1])
    /\ pack'.st.cycleLayouts[Len(PackLayouts) + 1].inst = entry.inst
    /\ pack'.st.cycleLayouts[Len(PackLayouts) + 1].cyc = entry.cyc
    /\ FirstFitted(pack.st.conferenceRows, pack'.st.conferenceRows,
                   pack'.st.cycleLayouts[Len(PackLayouts) + 1], entry)

(* C19: the loops visit the conference's cycles in dataset order           *)
(* (installments, then cycles); each visit of a cycle of two dates or more  *)
(* appends one layout, in the first row whose endX is at most startXPixel   *)
(* less the label width (8 a character plus 15, 0 for no name), that row's  *)
(* endX becoming the cycle's endXPixel, or in a new row of that endX when   *)
(* no row qualifies; every other row's endX is unchanged.                   *)
C19_FirstFitStep ==
    [][(pc = "pack" /\ pack'.k = pack.k + 1) =>
          /\ InDatasetOrder(pack.entries, conferenceData.value[1])
          /\ pack'.entries = pack.entries
          /\ IF Len(pack.entries[pack.k].cycle.dates) < 2
             THEN pack'.st = pack.st
             ELSE PlacedFirstFit(pack.entries[pack.k])]_vars

\* The third cycle did not fit the first row and took over the second.
C19_Witness ==
    /\ pc = "pack"
    /\ pack.k = 4
    /\ Len(PackLayouts) = 3
    /\ PackLayouts[2].rowIndex = 1
    /\ PackLayouts[3].rowIndex = 1
    /\ pack.st.conferenceRows = <<PackLayouts[1].endXPixel, PackLayouts[3].endXPixel>>
    /\ PackLayouts[3].endXPixel > PackLayouts[2].endXPixel

\* ------------------------------------------------------------ segment claims

\* The days of the pair from s to e that lie within the timeline.
ClippedDays(s, e) == Sub(MathMin(e, Svg.maxDate), MathMax(s, Svg.minDate))

\* The pair ends after it starts, part of it lies within [minDate, maxDate],
\* and that part times pixelsPerDay is a pixel or more.
PairDrawable(s, e) ==
    /\ Lt(s, e)
    /\ Gt(ClippedDays(s, e), 0)
    /\ ClippedDays(s, e) * Svg.width.num >= Svg.width.den

PairOf(conf, inst, cyc, seg) ==
    [s |-> parseDate(conf.installments[inst].cycles[cyc].dates[seg].date).date,
     e |-> parseDate(conf.installments[inst].cycles[cyc].dates[seg + 1].date).date]

BarDrawable(conf, bar) ==
    /\ PairDrawable(PairOf(conf, bar.inst, bar.cyc, bar.seg).s,
                    PairOf(conf, bar.inst, bar.cyc, bar.seg).e)
    /\ Ge(bar.width, Svg.width.den)

\* Pair seg of the placed cycle cl has its rectangle in the block.
HasBar(block, cl, seg) ==
    \E b \in 1..Len(block.bars) :
       /\ block.bars[b].inst = cl.inst
       /\ block.bars[b].cyc = cl.cyc
       /\ block.bars[b].seg = seg

DrawablePairsDrawn(conf, block) ==
    \A k \in 1..Len(block.cycleLayouts) :
       \A seg \in 1..(Len(conf.installments[block.cycleLayouts[k].inst]
                              .cycles[block.cycleLayouts[k].cyc].dates) - 1) :
          PairDrawable(PairOf(conf, block.cycleLayouts[k].inst,
                              block.cycleLayouts[k].cyc, seg).s,
                       PairOf(conf, block.cycleLayouts[k].inst,
                              block.cycleLayouts[k].cyc, seg).e)
             => HasBar(block, block.cycleLayouts[k], seg)

(* C20: every rectangle of a drawn timeline belongs to a pair of            *)
(* consecutive dates with end > start, whose interval clipped to [minDate,  *)
(* maxDate] is not empty and whose computed width is 1 pixel or more, and   *)
(* the rectangle is 1 pixel wide or more; a skipped pair stops nothing:     *)
(* the timeline is drawn with a block for every enabled conference, and     *)
(* every pair of a placed cycle that meets the three conditions has its     *)
(* rectangle.                                                               *)
C20_SegmentSkipping ==
    RenderedSvg =>
        /\ Len(Svg.blocks) = Len(Enabled)
        /\ \A c \in 1..Len(Svg.blocks) :
              /\ \A b \in 1..Len(Svg.blocks[c].bars) :
                    BarDrawable(Enabled[c], Svg.blocks[c].bars[b])
              /\ DrawablePairsDrawn(Enabled[c], Svg.blocks[c])

\* In the narrow column the cycle of four dates has one rectangle, for its
\* last pair: the pair of one day (0.82 pixel) and the pair of no length were
\* skipped, and the label stands at the rectangle.
C20_Witness ==
    /\ RenderedSvg
    /\ clientWidth = 300
    /\ Svg.blocks[1].conference = "CCS"
    /\ Len(Svg.blocks[1].bars) = 1
    /\ Svg.blocks[1].bars[1].seg = 3
    /\ Svg.blocks[1].bars[1].label
    /\ Svg.blocks[1].bars[1].durationDays = 30

\* ----------------------------------------------------------- loading claims

\* Every cycle of the dataset has its dates in non-decreasing order of day.
DatasetSorted(data) ==
    \A c \in 1..Len(data) : \A e \in 1..Len(CyclesOf(data[c])) :
       InLiteralOrder(CyclesOf(data[c])[e].cycle.dates)

(* C21: whatever resize and colour-scheme events fall before, between and   *)
(* after the steps of the fetch, the dataset a pass can read is sorted:     *)
(* as soon as conferenceData holds the dataset every cycle's dates are in   *)
(* non-decreasing order, and a pass that called the calculators ran on a    *)
(* loaded, sorted dataset.                                                  *)
C21_SortedBeforeAnyPass ==
    /\ (~conferenceData.null) => DatasetSorted(conferenceData.value)
    /\ (calls # <<>> \/ RenderedSvg) => ~conferenceData.null

\* A timeline is drawn from a dataset that was fetched with a cycle out of
\* order.
C21_Witness ==
    /\ RenderedSvg
    /\ ~DatasetSorted(response.json.value)
    /\ Enabled = conferenceData.value
    /\ DatasetSorted(conferenceData.value)

\* -------------------------------------------------------------- span claims

\* The literal days of the dates of a cycle.
OwnDays(cycle) == {LiteralDay(cycle.dates[i].date) : i \in 1..Len(cycle.dates)}

OwnMin(cycle) == CHOOSE d \in OwnDays(cycle) : \A x \in OwnDays(cycle) : d <= x
OwnMax(cycle) == CHOOSE d \in OwnDays(cycle) : \A x \in OwnDays(cycle) : d >= x

\* The whole width of the timeline being packed, in the unit of the pixel
\* values.
PackWidthUnits == pack.totalSvgTimelineWidth.days * pack.totalSvgTimelineWidth.num

\* The pixel of day d on the timeline being packed: its offset from minDate,
\* clamped to the timeline, times pixelsPerDay.
PackPixelOf(d) ==
    MathMin(pack.totalTimelineDays, MathMax(0, d - pack.minDate))
    * pack.totalSvgTimelineWidth.num

\* The layout cl of the cycle lies on the canvas, from the pixel of the
\* cycle's earliest date to that of its latest.
SpanOnCanvas(cl, cycle) ==
    /\ Ge(cl.startXPixel, 0)
    /\ Ge(cl.endXPixel, cl.startXPixel)
    /\ Ge(PackWidthUnits, cl.endXPixel)
    /\ cl.startXPixel = PackPixelOf(OwnMin(cycle))
    /\ cl.endXPixel = PackPixelOf(OwnMax(cycle))

(* C22: every cycle placed so far has 0 <= startXPixel <= endXPixel <=      *)
(* totalSvgTimelineWidth, startXPixel being the pixel of the cycle's        *)
(* earliest date and endXPixel that of its latest.                          *)
C22_SpanOnCanvas ==
    \A k \in 1..Len(PackLayouts) :
       SpanOnCanvas(PackLayouts[k],
                    conferenceData.value[1].installments[PackLayouts[k].inst]
                                           .cycles[PackLayouts[k].cyc])

\* --------------------------------------------------------- rectangle claims

\* Two rectangles share no pixel: one ends where the other starts, or before.
BarsApart(a, b) ==
    \/ a.x + a.width <= b.x
    \/ b.x + b.width <= a.x

\* The rectangle lies within the span of its cycle's layout in the block.
BarWithinCycle(block, bar) ==
    \E k \in 1..Len(block.cycleLayouts) :
       /\ block.cycleLayouts[k].inst = bar.inst
       /\ block.cycleLayouts[k].cyc = bar.cyc
       /\ block.cycleLayouts[k].startXPixel <= bar.x
       /\ bar.x + bar.width <= block.cycleLayouts[k].endXPixel

BlockBarsApart(block) ==
    /\ \A a, b \in 1..Len(block.bars) :
          (a < b /\ block.bars[a].y = block.bars[b].y)
             => BarsApart(block.bars[a], block.bars[b])
    /\ \A b \in 1..Len(block.bars) : BarWithinCycle(block, block.bars[b])

C24_PositiveSpan ==
    (RenderedSvg /\ Len(EnabledTimes) > 0) =>
        /\ Lt(Svg.minDate, Svg.maxDate)
        /\ Gt(Svg.totalTimelineDays, 0)

\* ----------------------------------------------------------- vertical claims

\* Every rectangle of block c ends above the first pixel row of every
\* rectangle of a later block.
BlocksStacked(blocks) ==
    \A c, d \in 1..Len(blocks) : c < d =>
       \A a \in 1..Len(blocks[c].bars) : \A b \in 1..Len(blocks[d].bars) :
          blocks[c].bars[a].y + blocks[c].bars[a].height <= blocks[d].bars[b].y

\* Every rectangle lies between the month labels and the canvas's bottom.
BarsOnCanvas(blocks, height) ==
    \A c \in 1..Len(blocks) : \A b \in 1..Len(blocks[c].bars) :
       /\ MONTH_LABEL_HEIGHT <= blocks[c].bars[b].y
       /\ blocks[c].bars[b].y + BAR_HEIGHT <= height

(* C25: in a drawn timeline every rectangle has MONTH_LABEL_HEIGHT <= y and *)
(* y + BAR_HEIGHT <= totalSvgHeight, the bottom row of the last visible     *)
(* conference included, and the rectangles of different conferences take    *)
(* disjoint vertical ranges.                                                *)
C25_BarsInsideCanvas ==
    RenderedSvg =>
        /\ BarsOnCanvas(Svg.blocks, Svg.height)
        /\ BlocksStacked(Svg.blocks)

\* ------------------------------------------------------------- filter claims

AllChecked == \A i \in 1..Len(boxes) : boxes[i].checked

\* localStorage holds nothing when every checkbox is checked, and otherwise
\* a map with one entry for each checkbox, equal to its checked state.
Persisted ==
    IF AllChecked THEN storage = Null
    ELSE /\ ~storage.null
         /\ {storage.value[k].key : k \in 1..Len(storage.value)}
               = {boxes[i].value : i \in 1..Len(boxes)}
         /\ \A k \in 1..Len(storage.value) : \A i \in 1..Len(boxes) :
               storage.value[k].key = boxes[i].value
                  => storage.value[k].value = boxes[i].checked

\* A step of a filter listener: a checkbox or #filter-all changed.
FilterStep == boxes' # boxes \/ selectAll' # selectAll

(* C26 as stated: once the page is loaded, every select-all or checkbox     *)
(* change leaves localStorage empty if and only if every conference         *)
(* checkbox is checked, and otherwise holding the map of the checkboxes'    *)
(* states; and no later step breaks that.                                   *)
C26_PersistedMatches ==
    [][(pc = "done" /\ (FilterStep \/ Persisted)) => Persisted']_vars

(* C26 amended: the same for a dataset of at least one conference.          *)
C26_PersistedMatchesNonEmpty ==
    [][(pc = "done" /\ Len(boxes) > 0 /\ (FilterStep \/ Persisted)) => Persisted']_vars

\* Select All / None was unchecked on two conferences: both are stored as
\* unchecked.
C26_Witness ==
    /\ pc = "done"
    /\ Len(boxes) = 2
    /\ ~selectAll
    /\ ~boxes[1].checked
    /\ ~boxes[2].checked
    /\ ~storage.null
    /\ storage.value = <<[key |-> boxes[1].value, value |-> FALSE],
                         [key |-> boxes[2].value, value |-> FALSE]>>

(* C27: once the filter controls of a dataset of at least one conference    *)
(* are rendered, and after every select-all or checkbox change, Select All  *)
(* / None is checked if and only if every conference checkbox is checked.   *)
C27_SelectAllConsistent ==
    (pc = "done" /\ Len(boxes) > 0) => (selectAll <=> AllChecked)

\* The user unchecked the first of two conferences: Select All / None is
\* unchecked, and the stored state is the listener's.
C27_Witness ==
    /\ pc = "done"
    /\ Len(boxes) = 2
    /\ ~boxes[1].checked
    /\ boxes[2].checked
    /\ ~selectAll
    /\ storage \notin StoredStates

\* The value the stored text gives the conference name: that of its last
\* member of that key; checked when nothing is stored or no member has the
\* key.
RestoredChecked(name) ==
    IF storage.null THEN TRUE
    ELSE IF \E k \in 1..Len(storage.value) : storage.value[k].key = name
         THEN storage.value[CHOOSE k \in 1..Len(storage.value) :
                               /\ storage.value[k].key = name
                               /\ \A l \in (k + 1)..Len(storage.value) :
                                     storage.value[l].key # name].value
         ELSE TRUE

(* C28: once the page is loaded, and after every filter event, building     *)
(* the filter controls anew from what localStorage holds gives exactly the  *)
(* present checkboxes: each conference is checked as its stored entry       *)
(* says, and checked when it has no entry or nothing is stored.             *)
C28_FilterRoundTrip ==
    pc = "done" =>
        /\ renderFilterControls(conferenceData.value, loadFilterState(storage)) = boxes
        /\ \A i \in 1..Len(boxes) : boxes[i].checked = RestoredChecked(boxes[i].value)

\* The stored state of an earlier visit unchecks one conference and has no
\* entry for the other, which is checked.
C28_Witness ==
    /\ pc = "done"
    /\ Len(boxes) = 2
    /\ ~storage.null
    /\ \E i, j \in 1..2 :
          /\ ~boxes[i].checked
          /\ \E k \in 1..Len(storage.value) : storage.value[k].key = boxes[i].value
          /\ boxes[j].checked
          /\ \A k \in 1..Len(storage.value) : storage.value[k].key # boxes[j].value

\* ---------------------------------------------------- claims on a page not loaded

\* The step is a resize or a change of the colour scheme.
WindowEventStep ==
    \/ innerWidth' # innerWidth
    \/ clientWidth' # clientWidth
    \/ isDarkMode' # isDarkMode

(* C29: while conferenceData is still null, a resize or a change of the     *)
(* colour scheme changes neither the panes, the wrapper, the checkboxes,    *)
(* the stored filter state nor any global, and its pass calls none of the   *)
(* calculators.                                                             *)
C29_NoPassBeforeData ==
    [][(conferenceData.null /\ WindowEventStep)
          => /\ UNCHANGED <<labelContainer, scrollContainer, wrapperMinHeight>>
             /\ UNCHANGED <<pc, conferenceData, filterContainer, boxes, selectAll, storage>>
             /\ calls' = <<>>]_vars

\* The window, 800 pixels wide when the page opened, has been resized while
\* response.json() is awaited, and the page is as it was.
C29_Witness ==
    /\ pc = "json"
    /\ conferenceData.null
    /\ innerWidth # 800
    /\ labelContainer = <<>>
    /\ scrollContainer = <<>>
    /\ wrapperMinHeight = ""

\* The page shows the error message of line 1215 and nothing else.
ErrorShown ==
    /\ scrollContainer = <<LoadError>>
    /\ labelContainer = <<>>
    /\ wrapperMinHeight = ""

(* C30: once loading has failed, by a response that is not ok, a body that  *)
(* is not JSON or a page without the filter container, the scroll pane      *)
(* shows the error message, and every later step, resizes and changes of    *)
(* the colour scheme included, leaves the page failed and the message in    *)
(* place with no calculator called.                                         *)
C30_ErrorStays ==
    [][/\ (pc' = "failed" => ErrorShown' /\ calls' = <<>>)
       /\ (pc = "failed" => pc' = "failed" /\ UNCHANGED <<labelContainer, scrollContainer>>)
       /\ (pc # "failed" /\ pc' = "failed"
             => \/ pc = "fetch" /\ ~response.ok
                \/ pc = "json" /\ response.json.null
                \/ pc = "json" /\ ~domFilterContainer /\ ~conferenceData'.null)]_vars

\* Loading failed for want of the filter container, with the dataset
\* already stored, and the window, 800 pixels wide when the page opened,
\* has been resized: the message is still there.
C30_Witness ==
    /\ pc = "failed"
    /\ ~conferenceData.null
    /\ Len(conferenceData.value) > 0
    /\ ~filterContainer
    /\ innerWidth # 800
    /\ ErrorShown

====
